---- MODULE Spec2Model ----
(***************************************************************************)
(* A model of the datetime Handlebars helper of handlebars-chrono          *)
(* (src/src/datetime.rs, HandlebarsChronoDateTime::call).                  *)
(*                                                                         *)
(* One invocation of the helper is a pipeline over one running value:      *)
(*   initializers -> modifiers (fixed order) -> finalizers -> out.write    *)
(* The state is the helper's hash of named parameters, the position in the *)
(* pipeline, the running DateTime, the output sink and the returned result.*)
(*                                                                         *)
(* Text is a sequence of one-character strings, so that parsing and        *)
(* formatting are computed character by character.  Integers wider than    *)
(* the checker's machine integers (i64, u64, u32) are kept as sign and     *)
(* decimal magnitude, so that their width is exact.                        *)
(***************************************************************************)
EXTENDS Integers, Sequences, FiniteSets, TLC

(***************************************************************************)
(* Text                                                                    *)
(***************************************************************************)
DigitChars == <<"0", "1", "2", "3", "4", "5", "6", "7", "8", "9">>

IsDigit(c) == \E i \in 1..10 : DigitChars[i] = c

DigitVal(c) == (CHOOSE i \in 1..10 : DigitChars[i] = c) - 1

UpperChars == <<"A", "B", "C", "D", "E", "F", "G", "H", "I", "J", "K", "L", "M",
                "N", "O", "P", "Q", "R", "S", "T", "U", "V", "W", "X", "Y", "Z">>

LowerChars == <<"a", "b", "c", "d", "e", "f", "g", "h", "i", "j", "k", "l", "m",
                "n", "o", "p", "q", "r", "s", "t", "u", "v", "w", "x", "y", "z">>

\* char::to_lowercase on the ASCII range
LowerChar(c) ==
    IF \E i \in 1..26 : UpperChars[i] = c
    THEN LowerChars[CHOOSE i \in 1..26 : UpperChars[i] = c]
    ELSE c

\* str::to_lowercase
to_lowercase(s) == [i \in 1..Len(s) |-> LowerChar(s[i])]

\* str::contains(char)
contains(s, c) == \E i \in 1..Len(s) : s[i] = c

IsWhitespace(c) == c \in {" ", "\t", "\n"}

\* the suffix of s that starts at position i (1-based); empty past the end
Drop(s, n) == IF n >= Len(s) THEN <<>> ELSE SubSeq(s, n + 1, Len(s))

Take(s, n) == IF n >= Len(s) THEN s ELSE SubSeq(s, 1, n)

AllDigits(s) == \A i \in 1..Len(s) : IsDigit(s[i])

(***************************************************************************)
(* Wide integers: [neg, mag], mag the decimal digits (most significant     *)
(* first, no leading zero, <<>> for zero).                                 *)
(***************************************************************************)
RECURSIVE StripZeros(_)
StripZeros(d) == IF d # <<>> /\ d[1] = 0 THEN StripZeros(Tail(d)) ELSE d

Big(neg, mag) ==
    LET m == StripZeros(mag) IN [neg |-> neg /\ m # <<>>, mag |-> m]

RECURSIVE NatDigits(_)
NatDigits(n) == IF n = 0 THEN <<>> ELSE Append(NatDigits(n \div 10), n % 10)

\* a machine integer as a wide integer
BigOf(n) == IF n < 0 THEN Big(TRUE, NatDigits(-n)) ELSE Big(FALSE, NatDigits(n))

\* magnitudes compared as numbers: -1, 0, 1
RECURSIVE LexCmp(_, _)
LexCmp(a, b) ==
    IF a = <<>> THEN 0
    ELSE IF a[1] < b[1] THEN -1
    ELSE IF a[1] > b[1] THEN 1
    ELSE LexCmp(Tail(a), Tail(b))

MagCmp(a, b) ==
    IF Len(a) < Len(b) THEN -1
    ELSE IF Len(a) > Len(b) THEN 1
    ELSE LexCmp(a, b)

BigCmp(a, b) ==
    IF a.neg /\ ~b.neg THEN -1
    ELSE IF ~a.neg /\ b.neg THEN 1
    ELSE IF a.neg THEN MagCmp(b.mag, a.mag)
    ELSE MagCmp(a.mag, b.mag)

\* the value of a magnitude as a machine integer, saturating at SmallCap
\* (every range the value is later compared with lies well below it)
SmallCap == 2 * 1000 * 1000 * 1000

RECURSIVE MagSmallAcc(_, _)
MagSmallAcc(d, acc) ==
    IF d = <<>> THEN acc
    ELSE IF acc >= SmallCap \div 10 THEN SmallCap
    ELSE MagSmallAcc(Tail(d), acc * 10 + d[1])

MagSmall(d) == MagSmallAcc(d, 0)

BigSmall(b) == IF b.neg THEN -MagSmall(b.mag) ELSE MagSmall(b.mag)

\* long division of a magnitude by a machine integer 0 < k < 10^8:
\* quotient digits and remainder
RECURSIVE MagDivAcc(_, _, _, _)
MagDivAcc(d, k, q, r) ==
    IF d = <<>> THEN [q |-> StripZeros(q), r |-> r]
    ELSE LET x == r * 10 + d[1]
         IN MagDivAcc(Tail(d), k, Append(q, x \div k), x % k)

MagDiv(d, k) == MagDivAcc(d, k, <<>>, 0)

\* mag * k + a for machine integers 0 <= k < 10^8, 0 <= a < 10^8
RECURSIVE MagMulAddAcc(_, _, _, _)
MagMulAddAcc(d, k, carry, out) ==
    IF d = <<>>
    THEN NatDigits(carry) \o out
    ELSE LET x == d[Len(d)] * k + carry
         IN MagMulAddAcc(SubSeq(d, 1, Len(d) - 1), k, x \div 10, <<x % 10>> \o out)

MagMulAdd(d, k, a) == StripZeros(MagMulAddAcc(d, k, a, <<>>))

\* magnitude minus one (d # <<>>)
RECURSIVE MagPredAcc(_)
MagPredAcc(d) ==
    IF d[Len(d)] > 0
    THEN [d EXCEPT ![Len(d)] = @ - 1]
    ELSE Append(MagPredAcc(SubSeq(d, 1, Len(d) - 1)), 9)

MagPred(d) == StripZeros(MagPredAcc(d))

\* b * k + a for a wide integer b and machine integers 0 < k < 10^8,
\* 0 <= a < 2 * k
SignedMulAdd(b, k, a) ==
    IF ~b.neg THEN Big(FALSE, MagMulAdd(b.mag, k, a))
    ELSE IF a <= k THEN Big(TRUE, MagMulAdd(MagPred(b.mag), k, k - a))
    ELSE IF MagPred(b.mag) = <<>> THEN Big(FALSE, NatDigits(a - k))
    ELSE Big(TRUE, MagMulAdd(MagPred(MagPred(b.mag)), k, 2 * k - a))

\* i64::to_string and friends
DigitsText(d) == [i \in 1..Len(d) |-> DigitChars[d[i] + 1]]

to_string(b) ==
    IF b.mag = <<>> THEN <<"0">>
    ELSE IF b.neg THEN <<"-">> \o DigitsText(b.mag)
    ELSE DigitsText(b.mag)

(***************************************************************************)
(* str::parse::<i64 | i32 | u64 | u32>                                     *)
(***************************************************************************)
I64Max == <<9, 2, 2, 3, 3, 7, 2, 0, 3, 6, 8, 5, 4, 7, 7, 5, 8, 0, 7>>

I32Max == <<2, 1, 4, 7, 4, 8, 3, 6, 4, 7>>

U64Max == <<1, 8, 4, 4, 6, 7, 4, 4, 0, 7, 3, 7, 0, 9, 5, 5, 1, 6, 1, 5>>

U32Max == <<4, 2, 9, 4, 9, 6, 7, 2, 9, 5>>

\* the largest magnitude of the type on the positive and on the negative side
TypeMax(ty, neg) ==
    CASE ty = "i64" -> IF neg THEN MagMulAdd(I64Max, 1, 1) ELSE I64Max
      [] ty = "i32" -> IF neg THEN MagMulAdd(I32Max, 1, 1) ELSE I32Max
      [] ty = "u64" -> IF neg THEN <<>> ELSE U64Max
      [] ty = "u32" -> IF neg THEN <<>> ELSE U32Max

ParseErr(why) == [ok |-> FALSE, why |-> why]

\* Result<T, ParseIntError>: a sign is optional ('-' only for signed types),
\* at least one digit must follow, and the value must fit the type.
parse(s, ty) ==
    LET signed == ty \in {"i64", "i32"}
        hasSign == Len(s) > 0 /\ (s[1] = "+" \/ (s[1] = "-" /\ signed))
        neg == hasSign /\ s[1] = "-"
        body == IF hasSign THEN Tail(s) ELSE s
        mag == StripZeros([i \in 1..Len(body) |-> DigitVal(body[i])])
    IN  IF s = <<>> THEN ParseErr("cannot parse integer from empty string")
        ELSE IF body = <<>> \/ ~AllDigits(body)
            THEN ParseErr("invalid digit found in string")
        ELSE IF MagCmp(mag, TypeMax(ty, neg)) > 0
            THEN ParseErr(IF neg THEN "number too small to fit in target type"
                                 ELSE "number too large to fit in target type")
        ELSE [ok |-> TRUE, val |-> Big(neg, mag)]

(***************************************************************************)
(* The proleptic Gregorian calendar of chrono::NaiveDate                   *)
(***************************************************************************)
IsLeap(y) == (y % 4 = 0 /\ y % 100 # 0) \/ y % 400 = 0

DaysInMonth(y, m) ==
    IF m = 2 THEN (IF IsLeap(y) THEN 29 ELSE 28)
    ELSE IF m \in {4, 6, 9, 11} THEN 30 ELSE 31

DaysInYear(y) == IF IsLeap(y) THEN 366 ELSE 365

\* days from 1970-01-01 to the civil date y-m-d
DaysFromCivil(y, m, d) ==
    LET yy == IF m <= 2 THEN y - 1 ELSE y
        era == yy \div 400
        yoe == yy - era * 400
        mp == IF m > 2 THEN m - 3 ELSE m + 9
        doy == (153 * mp + 2) \div 5 + d - 1
        doe == yoe * 365 + yoe \div 4 - yoe \div 100 + doy
    IN  era * 146097 + doe - 719468

\* the civil date of a day number
CivilFromDays(z) ==
    LET Date(era, yoe, doy, mp) ==
            [y |-> yoe + era * 400 + (IF mp < 10 THEN 0 ELSE 1),
             m |-> IF mp < 10 THEN mp + 3 ELSE mp - 9,
             d |-> doy - (153 * mp + 2) \div 5 + 1]
        InYear(era, yoe, doy) == Date(era, yoe, doy, (5 * doy + 2) \div 153)
        InEra(era, doe, yoe) ==
            InYear(era, yoe, doe - (365 * yoe + yoe \div 4 - yoe \div 100))
        OfEra(era, doe) ==
            InEra(era, doe, (doe - doe \div 1460 + doe \div 36524 - doe \div 146096) \div 365)
        Shifted(zz) == OfEra(zz \div 146097, zz - (zz \div 146097) * 146097)
    IN  Shifted(z + 719468)

\* NaiveDate::MIN and NaiveDate::MAX (years -262143 and 262142) as day numbers
MinDays == DaysFromCivil(-262143, 1, 1)

MaxDays == DaysFromCivil(262142, 12, 31)

\* 0 = Sunday ... 6 = Saturday
Weekday(days) == (days + 4) % 7

(***************************************************************************)
(* Option<T>                                                               *)
(***************************************************************************)
None == [some |-> FALSE]

Some(v) == [some |-> TRUE, v |-> v]

(***************************************************************************)
(* chrono::DateTime<FixedOffset>: the UTC date-time as day number since    *)
(* 1970-01-01, second of the day and nanosecond (1,000,000,000 and above   *)
(* encode a leap second), with the display offset in seconds east of UTC.  *)
(***************************************************************************)
DT(days, secs, frac, off) == [days |-> days, secs |-> secs, frac |-> frac, off |-> off]

\* DateTime::<Utc>::MIN_UTC ..= MAX_UTC
InRange(days) == MinDays <= days /\ days <= MaxDays

Pow10(k) == CASE k = 0 -> 1 [] k = 3 -> 1000 [] k = 6 -> 1000000 [] k = 9 -> 1000000000

\* a magnitude counting units of 10^-k seconds (k = 0, 3, 6, 9) as
\* whole days (saturating), seconds of a day and nanoseconds
SplitCount(mag, k) ==
    LET n == Len(mag)
        secsMag == IF n > k THEN SubSeq(mag, 1, n - k) ELSE <<>>
        subMag == IF n > k THEN SubSeq(mag, n - k + 1, n) ELSE mag
        dv == MagDiv(secsMag, 86400)
    IN  [days |-> MagSmall(dv.q),
         secs |-> dv.r,
         frac |-> MagSmall(StripZeros(subMag)) * Pow10(9 - k)]

\* a variant of from_count that forgets the part of the count below a second
from_count_whole_seconds(val, k) ==
    LET Made(days, secs) ==
            IF InRange(days) THEN Some(DT(days, secs, 0, 0)) ELSE None
        Split(c) ==
            IF ~val.neg THEN Made(c.days, c.secs)
            ELSE IF c.secs = 0 THEN Made(-c.days, 0)
            ELSE Made(-c.days - 1, 86400 - c.secs)
    IN  Split(SplitCount(val.mag, k))

\* a variant of from_count that moves a day outside NaiveDate's range to the
\* nearest day inside it
from_count_clamped(val, k) ==
    LET Made(days, secs, frac) ==
            Some(DT(IF days < MinDays THEN MinDays
                    ELSE IF days > MaxDays THEN MaxDays ELSE days, secs, frac, 0))
        Split(c) ==
            IF ~val.neg THEN Made(c.days, c.secs, c.frac)
            ELSE IF c.secs = 0 /\ c.frac = 0 THEN Made(-c.days, 0, 0)
            ELSE IF c.frac = 0 THEN Made(-c.days - 1, 86400 - c.secs, 0)
            ELSE Made(-c.days - 1, 86399 - c.secs, 1000000000 - c.frac)
    IN  Split(SplitCount(val.mag, k))

\* DateTime::from_timestamp(secs, 0), from_timestamp_millis, from_timestamp_micros:
\* the count is floor-divided into days, seconds and nanoseconds; None when
\* the day lies outside NaiveDate's range
from_count(val, k) ==
    LET Made(days, secs, frac) ==
            IF InRange(days) THEN Some(DT(days, secs, frac, 0)) ELSE None
        Split(c) ==
            IF ~val.neg THEN Made(c.days, c.secs, c.frac)
            ELSE IF c.secs = 0 /\ c.frac = 0 THEN Made(-c.days, 0, 0)
            ELSE IF c.frac = 0 THEN Made(-c.days - 1, 86400 - c.secs, 0)
            ELSE Made(-c.days - 1, 86399 - c.secs, 1000000000 - c.frac)
    IN  Split(SplitCount(val.mag, k))

\* the local (display) date and time of a DateTime
naive_local(dt) ==
    LET Local(t, c) ==
            [y |-> c.y, m |-> c.m, d |-> c.d, secs |-> t % 86400, frac |-> dt.frac]
    IN  Local(dt.secs + dt.off, CivilFromDays(dt.days + (dt.secs + dt.off) \div 86400))

\* FixedOffset::from_local_datetime(..).single(), kept within MIN_UTC..MAX_UTC
from_local_datetime(n, off) ==
    LET Made(t, days) ==
            IF InRange(days) THEN Some(DT(days, t % 86400, n.frac, off)) ELSE None
    IN  Made(n.secs - off, DaysFromCivil(n.y, n.m, n.d) + (n.secs - off) \div 86400)

\* DateTime::map_local: a change of the local date-time, read back in the
\* same offset
map_local(dt, changed) ==
    IF changed.some THEN from_local_datetime(changed.v, dt.off) ELSE None

\* a variant of with_timezone that keeps the wall clock and moves the instant
with_timezone_keep_local(dt, off) ==
    [dt EXCEPT !.off = off,
               !.secs = (dt.secs + dt.off - off) % 86400,
               !.days = dt.days + ((dt.secs + dt.off - off) \div 86400)]

\* DateTime::with_timezone(&FixedOffset): same instant, other display offset
with_timezone(dt, off) == [dt EXCEPT !.off = off]

\* DateTime<Utc>::fixed_offset, DateTime::to_utc
fixed_offset(dt) == dt

to_utc(dt) == [dt EXCEPT !.off = 0]

(***************************************************************************)
(* Datelike / Timelike setters on the local date-time; the argument is the *)
(* parsed u32 (i32 for the year) as a saturated machine integer            *)
(***************************************************************************)
ValidYmd(y, m, d) ==
    /\ -262143 <= y /\ y <= 262142
    /\ 1 <= m /\ m <= 12
    /\ 1 <= d /\ d <= DaysInMonth(y, m)

naive_with_ordinal(n, o) ==
    LET Date(c) == Some([n EXCEPT !.m = c.m, !.d = c.d])
    IN  IF 1 <= o /\ o <= DaysInYear(n.y)
        THEN Date(CivilFromDays(DaysFromCivil(n.y, 1, 1) + o - 1))
        ELSE None

naive_with_year(n, y) ==
    IF ValidYmd(y, n.m, n.d) THEN Some([n EXCEPT !.y = y]) ELSE None

naive_with_month(n, m) ==
    IF ValidYmd(n.y, m, n.d) THEN Some([n EXCEPT !.m = m]) ELSE None

naive_with_day(n, d) ==
    IF ValidYmd(n.y, n.m, d) THEN Some([n EXCEPT !.d = d]) ELSE None

naive_with_hour(n, h) ==
    IF h < 24 THEN Some([n EXCEPT !.secs = h * 3600 + (n.secs % 3600)]) ELSE None

naive_with_minute(n, mi) ==
    IF mi < 60
    THEN Some([n EXCEPT !.secs = (n.secs \div 3600) * 3600 + mi * 60 + (n.secs % 60)])
    ELSE None

naive_with_second(n, sec) ==
    IF sec < 60 THEN Some([n EXCEPT !.secs = (n.secs \div 60) * 60 + sec]) ELSE None

naive_with_nanosecond(n, nano) ==
    IF nano < 2000000000 THEN Some([n EXCEPT !.frac = nano]) ELSE None

with_ordinal(dt, v) == map_local(dt, naive_with_ordinal(naive_local(dt), v))

\* ordinal0.checked_add(1): a u32 below 2^32 - 1 never overflows here, and the
\* saturated value is out of range either way
with_ordinal0(dt, v) == map_local(dt, naive_with_ordinal(naive_local(dt), v + 1))

with_year(dt, v) == map_local(dt, naive_with_year(naive_local(dt), v))

\* a variant of with_month that takes the last day of the month when the month
\* lacks the day of the instant
with_month_clamping(dt, v) ==
    LET Last(n) == DaysInMonth(n.y, v)
        Clamped(n) ==
            IF 1 <= v /\ v <= 12
            THEN Some([n EXCEPT !.m = v, !.d = IF n.d < Last(n) THEN n.d ELSE Last(n)])
            ELSE None
    IN  map_local(dt, Clamped(naive_local(dt)))

with_month(dt, v) == map_local(dt, naive_with_month(naive_local(dt), v))

\* a variant of with_month0 that counts the months from 1
with_month0_from_one(dt, v) == map_local(dt, naive_with_month(naive_local(dt), v))

with_month0(dt, v) == map_local(dt, naive_with_month(naive_local(dt), v + 1))

with_day(dt, v) == map_local(dt, naive_with_day(naive_local(dt), v))

with_day0(dt, v) == map_local(dt, naive_with_day(naive_local(dt), v + 1))

\* a variant of with_hour that sets the hour of the UTC representation
with_hour_utc(dt, v) ==
    LET Shown(r) == IF r.some THEN Some(with_timezone(r.v, dt.off)) ELSE None
    IN  Shown(map_local(to_utc(dt), naive_with_hour(naive_local(to_utc(dt)), v)))

with_hour(dt, v) == map_local(dt, naive_with_hour(naive_local(dt), v))

with_minute(dt, v) == map_local(dt, naive_with_minute(naive_local(dt), v))

with_second(dt, v) == map_local(dt, naive_with_second(naive_local(dt), v))

with_nanosecond(dt, v) == map_local(dt, naive_with_nanosecond(naive_local(dt), v))

(***************************************************************************)
(* Calendar and clock arithmetic                                           *)
(***************************************************************************)
Min(a, b) == IF a < b THEN a ELSE b

\* a variant of naive_diff_months that refuses a day the target month lacks
naive_diff_months_strict(n, months) ==
    LET total == n.y * 12 + (n.m - 1) + months
        y == total \div 12
        m == (total % 12) + 1
    IN  IF -262143 <= y /\ y <= 262142 /\ n.d <= DaysInMonth(y, m)
        THEN Some([n EXCEPT !.y = y, !.m = m])
        ELSE None

\* NaiveDate::diff_months: the day is clamped to the length of the new month
naive_diff_months(n, months) ==
    LET total == n.y * 12 + (n.m - 1) + months
        y == total \div 12
        m == (total % 12) + 1
    IN  IF -262143 <= y /\ y <= 262142
        THEN Some([n EXCEPT !.y = y, !.m = m, !.d = Min(n.d, DaysInMonth(y, m))])
        ELSE None

\* DateTime::checked_add_months(Months::new(v)); v is the saturated u32
checked_add_months(dt, v) ==
    IF v = 0 THEN Some(dt)
    ELSE map_local(dt, naive_diff_months(naive_local(dt), v))

checked_sub_months(dt, v) ==
    IF v = 0 THEN Some(dt)
    ELSE map_local(dt, naive_diff_months(naive_local(dt), -v))

\* NaiveDate::add_days on the local date
naive_add_days(n, k) ==
    LET Date(c) == Some([n EXCEPT !.y = c.y, !.m = c.m, !.d = c.d])
        Day(z) == IF InRange(z) THEN Date(CivilFromDays(z)) ELSE None
    IN  Day(DaysFromCivil(n.y, n.m, n.d) + k)

\* DateTime::checked_add_days(Days::new(v)); v is the saturated u64
checked_add_days(dt, v) ==
    IF v = 0 THEN Some(dt) ELSE map_local(dt, naive_add_days(naive_local(dt), v))

checked_sub_days(dt, v) ==
    IF v = 0 THEN Some(dt) ELSE map_local(dt, naive_add_days(naive_local(dt), -v))

\* i64::MAX / 1000, the largest TimeDelta in seconds
TimeDeltaMaxSecs == <<9, 2, 2, 3, 3, 7, 2, 0, 3, 6, 8, 5, 4, 7, 7, 5>>

\* the seconds in one unit (whole-second units) and the decimal places of a
\* sub-second unit
UnitSecs(unit) ==
    CASE unit = "weeks" -> 604800
      [] unit = "hours" -> 3600
      [] unit = "minutes" -> 60
      [] OTHER -> 1

UnitPlaces(unit) ==
    CASE unit = "milliseconds" -> 3
      [] unit = "microseconds" -> 6
      [] unit = "nanoseconds" -> 9
      [] OTHER -> 0

\* TimeDelta::try_weeks / try_hours / try_minutes / try_seconds /
\* try_milliseconds, and the infallible microseconds / nanoseconds: the
\* delta as sign, whole days (saturating), seconds and nanoseconds
TimeDelta(val, unit) ==
    LET Made(c) ==
            Some([neg |-> val.neg, days |-> c.days, secs |-> c.secs, frac |-> c.frac])
        Scaled(mag) ==
            IF CASE unit \in {"weeks", "hours", "minutes", "seconds"} ->
                        MagCmp(mag, TimeDeltaMaxSecs) <= 0
                 [] unit = "milliseconds" -> MagCmp(val.mag, I64Max) <= 0
                 [] OTHER -> TRUE
            THEN Made(SplitCount(mag, UnitPlaces(unit)))
            ELSE None
    IN  Scaled(MagMulAdd(val.mag, UnitSecs(unit), 0))

\* a variant of checked_add_signed that never reports a date out of range
checked_add_signed_unchecked(dt, td, sign) ==
    LET s == IF td.neg THEN -sign ELSE sign
        F == (dt.frac % 1000000000) + s * td.frac
        S == dt.secs + s * td.secs + F \div 1000000000
        days == dt.days + s * td.days + S \div 86400
    IN  Some(DT(IF days < MinDays THEN MaxDays - ((MinDays - days) % 1000)
                ELSE IF days > MaxDays THEN MinDays + ((days - MaxDays) % 1000)
                ELSE days,
                S % 86400, F % 1000000000, dt.off))

\* NaiveDateTime::checked_add_signed on the UTC date-time (sign = 1) and
\* checked_sub_signed (sign = -1), with NaiveTime::overflowing_add_signed's
\* treatment of a leap second
checked_add_signed(dt, td, sign) ==
    LET s == IF td.neg THEN -sign ELSE sign
        whole == td.days > 0 \/ td.secs > 0
        fta == s * td.frac
        leap == dt.frac >= 1000000000
        escapes == leap /\ ((s = 1 /\ whole) \/ (fta > 0 /\ dt.frac >= 2000000000 - fta))
        back == leap /\ ~escapes /\ s = -1 /\ whole
        stays == leap /\ ~escapes /\ ~back
        frac0 == IF leap THEN dt.frac - 1000000000 ELSE dt.frac
        secs0 == IF back THEN dt.secs + 1 ELSE dt.secs
        F == frac0 + fta
        S == secs0 + s * td.secs + F \div 1000000000
        days == dt.days + s * td.days + S \div 86400
    IN  IF stays THEN Some([dt EXCEPT !.frac = dt.frac + fta])
        ELSE IF InRange(days)
            THEN Some(DT(days, S % 86400, F % 1000000000, dt.off))
        ELSE None

(***************************************************************************)
(* Timestamps                                                              *)
(***************************************************************************)
\* DateTime::timestamp
timestamp(dt) == SignedMulAdd(BigOf(dt.days), 86400, dt.secs)

\* DateTime::timestamp_millis
timestamp_millis(dt) == SignedMulAdd(timestamp(dt), 1000, dt.frac \div 1000000)

\* DateTime::timestamp_micros
timestamp_micros(dt) == SignedMulAdd(timestamp(dt), 1000000, dt.frac \div 1000)

\* a variant of timestamp_nanos_opt that hands out the count whether or not it
\* fits an i64
timestamp_nanos_opt_unchecked(dt) ==
    Some(SignedMulAdd(SignedMulAdd(timestamp_millis(dt), 1000, (dt.frac \div 1000) % 1000),
                      1000, dt.frac % 1000))

\* DateTime::timestamp_nanos_opt: None when the count does not fit an i64
timestamp_nanos_opt(dt) ==
    LET Fits(ns) == IF MagCmp(ns.mag, TypeMax("i64", ns.neg)) <= 0 THEN Some(ns) ELSE None
    IN  Fits(SignedMulAdd(SignedMulAdd(timestamp_millis(dt), 1000, (dt.frac \div 1000) % 1000),
                          1000, dt.frac % 1000))

\* DateTime::years_since: whole years from base to dt, each read in its own
\* display offset; None when negative
years_since(dt, base) ==
    LET Years(n) == IF n >= 0 THEN Some(n) ELSE None
        Between(a, b) ==
            Years(a.y - b.y -
                  (IF \/ a.m < b.m
                      \/ a.m = b.m /\ a.d < b.d
                      \/ a.m = b.m /\ a.d = b.d /\ a.secs < b.secs
                      \/ a.m = b.m /\ a.d = b.d /\ a.secs = b.secs /\ a.frac < b.frac
                   THEN 1 ELSE 0))
    IN  Between(naive_local(dt), naive_local(base))

(***************************************************************************)
(* Scanning text                                                           *)
(***************************************************************************)
NoScan == [ok |-> FALSE]

Scanned(v, rest) == [ok |-> TRUE, v |-> v, rest |-> rest]

\* the length of the run of digits s starts with, at most max
RECURSIVE DigitRun(_, _)
DigitRun(s, max) ==
    IF max = 0 \/ s = <<>> \/ ~IsDigit(s[1]) THEN 0
    ELSE 1 + DigitRun(Tail(s), max - 1)

RECURSIVE TextVal(_, _)
TextVal(s, acc) == IF s = <<>> THEN acc ELSE TextVal(Tail(s), acc * 10 + DigitVal(s[1]))

\* scan::number(s, min, max): between min and max digits (max <= 9)
ScanNumber(s, min, max) ==
    LET n == DigitRun(s, max)
    IN  IF n < min THEN NoScan ELSE Scanned(TextVal(Take(s, n), 0), Drop(s, n))

\* one given character
ScanChar(s, cs) ==
    IF s # <<>> /\ s[1] \in cs THEN Scanned(s[1], Tail(s)) ELSE NoScan

RECURSIVE TrimStart(_, _)
TrimStart(s, cs) == IF s # <<>> /\ s[1] \in cs THEN TrimStart(Tail(s), cs) ELSE s

StartsWith(s, p) == Len(s) >= Len(p) /\ SubSeq(s, 1, Len(p)) = p

(***************************************************************************)
(* FixedOffset::from_str: scan::timezone_offset with colon_or_space, no    *)
(* "Z", minutes required; what follows the minutes is not looked at.       *)
(* FixedOffset::east_opt then wants the offset strictly within a day.      *)
(***************************************************************************)
FixedOffset_from_str(s) ==
    LET negative == s[1] = "-"
        s1 == Tail(s)
        s2 == TrimStart(Drop(s1, 2), {":", " ", "\t", "\n"})
        hours == TextVal(Take(s1, 2), 0)
        minutes == TextVal(Take(s2, 2), 0)
        seconds == hours * 3600 + minutes * 60
    IN  IF s = <<>> \/ s[1] \notin {"+", "-"} THEN None
        ELSE IF Len(s1) < 2 \/ ~AllDigits(Take(s1, 2)) THEN None
        ELSE IF Len(s2) < 2 \/ ~AllDigits(Take(s2, 2)) THEN None
        ELSE IF minutes >= 60 \/ seconds >= 86400 THEN None
        ELSE Some(IF negative THEN -seconds ELSE seconds)

(***************************************************************************)
(* chrono_tz::Tz: the zones of the IANA database this model knows, by      *)
(* exact name, and the offset each has at an instant.                      *)
(***************************************************************************)
TzEdmonton == <<"A", "m", "e", "r", "i", "c", "a", "/", "E", "d", "m", "o", "n", "t", "o", "n">>

TzTokyo == <<"A", "s", "i", "a", "/", "T", "o", "k", "y", "o">>

TzGmtPlus10 == <<"E", "t", "c", "/", "G", "M", "T", "+", "1", "0">>

TzUTC == <<"U", "T", "C">>

TzNames == {TzEdmonton, TzTokyo, TzGmtPlus10, TzUTC}

\* str::parse::<Tz>
Tz_from_str(s) == IF s \in TzNames THEN Some(s) ELSE None

\* the first Sunday on or after a day, the last Sunday on or before it
SundayOnOrAfter(z) == z + ((7 - Weekday(z)) % 7)

SundayOnOrBefore(z) == z - Weekday(z)

\* America/Edmonton: Mountain time, daylight saving from 09:00 UTC of the
\* starting Sunday to 08:00 UTC of the ending Sunday (1972-1986 last Sunday of
\* April, 1987-2006 first Sunday of April, both to the last Sunday of October;
\* from 2007 second Sunday of March to first Sunday of November); standard
\* time throughout before 1972
EdmontonDst(dt) ==
    LET Between(start, end) ==
            /\ (dt.days > start \/ (dt.days = start /\ dt.secs >= 9 * 3600))
            /\ (dt.days < end \/ (dt.days = end /\ dt.secs < 8 * 3600))
        InYear(y) ==
            /\ y >= 1972
            /\ Between(IF y >= 2007 THEN SundayOnOrAfter(DaysFromCivil(y, 3, 8))
                       ELSE IF y >= 1987 THEN SundayOnOrAfter(DaysFromCivil(y, 4, 1))
                       ELSE SundayOnOrBefore(DaysFromCivil(y, 4, 30)),
                       IF y >= 2007 THEN SundayOnOrAfter(DaysFromCivil(y, 11, 1))
                       ELSE SundayOnOrBefore(DaysFromCivil(y, 10, 31)))
    IN  InYear(CivilFromDays(dt.days).y)

\* datetime.with_timezone(&tz).fixed_offset().timezone(): the zone's offset at
\* the instant
TzOffsetAt(tz, dt) ==
    CASE tz = TzEdmonton -> IF EdmontonDst(dt) THEN -6 * 3600 ELSE -7 * 3600
      [] tz = TzTokyo -> 9 * 3600
      [] tz = TzGmtPlus10 -> -10 * 3600
      [] OTHER -> 0

(***************************************************************************)
(* Writing numbers                                                         *)
(***************************************************************************)
RECURSIVE ZeroPad(_, _)
ZeroPad(d, w) == IF Len(d) >= w THEN d ELSE ZeroPad(<<0>> \o d, w)

\* a natural number in at least w decimal digits
PadNum(n, w) == DigitsText(ZeroPad(NatDigits(n), w))

Abs(n) == IF n < 0 THEN -n ELSE n

\* the local second 0..60 and nanosecond below 10^9 of a local date-time,
\* a leap second read as second 60
ClockFields(n) ==
    LET leap == n.frac >= 1000000000
    IN  [hour |-> n.secs \div 3600,
         minute |-> (n.secs \div 60) % 60,
         second |-> (n.secs % 60) + (IF leap THEN 1 ELSE 0),
         nano |-> n.frac % 1000000000]

\* a UTC offset as +HH:MM (colon) or +HHMM (no colon), rounded to minutes
OffsetText(off, colon) ==
    LET mins == (Abs(off) + 30) \div 60
    IN  <<IF off < 0 THEN "-" ELSE "+">> \o PadNum(mins \div 60, 2)
        \o (IF colon THEN <<":">> ELSE <<>>) \o PadNum(mins % 60, 2)

YearText(y) ==
    IF 0 <= y /\ y <= 9999 THEN PadNum(y, 4)
    ELSE <<IF y < 0 THEN "-" ELSE "+">> \o PadNum(Abs(y), 4)

(***************************************************************************)
(* RFC 3339                                                                *)
(***************************************************************************)
\* DateTime::to_rfc3339: the local date-time, the fraction in 0, 3, 6 or 9
\* digits, the offset as +HH:MM
to_rfc3339(dt) ==
    LET Fraction(nano) ==
            IF nano = 0 THEN <<>>
            ELSE IF nano % 1000000 = 0 THEN <<".">> \o PadNum(nano \div 1000000, 3)
            ELSE IF nano % 1000 = 0 THEN <<".">> \o PadNum(nano \div 1000, 6)
            ELSE <<".">> \o PadNum(nano, 9)
        Text(n, c) ==
            YearText(n.y) \o <<"-">> \o PadNum(n.m, 2) \o <<"-">> \o PadNum(n.d, 2)
            \o <<"T">> \o PadNum(c.hour, 2) \o <<":">> \o PadNum(c.minute, 2)
            \o <<":">> \o PadNum(c.second, 2) \o Fraction(c.nano) \o OffsetText(dt.off, TRUE)
        Local(n) == Text(n, ClockFields(n))
    IN  Local(naive_local(dt))

\* a scan in progress: the text still to read and the values read so far
Cursor(s) == [ok |-> TRUE, rest |-> s, vals |-> <<>>]

\* the scan p after a scanner gave r on p.rest; the value is kept or dropped
Push(p, r, keep) ==
    IF ~r.ok THEN NoScan
    ELSE [ok |-> TRUE, rest |-> r.rest, vals |-> IF keep THEN Append(p.vals, r.v) ELSE p.vals]

\* the scan p continued by the scanner F, unless it has failed already
Step(p, F(_), keep) == IF p.ok THEN Push(p, F(p.rest), keep) ELSE NoScan

\* scan::nanosecond: 1 to 9 digits scaled to nanoseconds, further digits skipped
ScanNanosecond(s) ==
    LET n == DigitRun(s, 9)
        scale == CASE n = 1 -> 100000000 [] n = 2 -> 10000000 [] n = 3 -> 1000000
                   [] n = 4 -> 100000 [] n = 5 -> 10000 [] n = 6 -> 1000
                   [] n = 7 -> 100 [] n = 8 -> 10 [] OTHER -> 1
    IN  IF n = 0 THEN NoScan
        ELSE Scanned(TextVal(Take(s, n), 0) * scale, TrimStart(Drop(s, n), {DigitChars[i] : i \in 1..10}))

\* scan::timezone_offset with "Z" allowed and the colon required
ScanOffsetColon(s) ==
    LET Number(p) == Step(p, LAMBDA r : ScanNumber(r, 2, 2), TRUE)
        Made(p) ==
            IF ~p.ok \/ p.vals[3] >= 60 THEN NoScan
            ELSE Scanned((IF p.vals[1] = "-" THEN -1 ELSE 1)
                            * (p.vals[2] * 3600 + p.vals[3] * 60), p.rest)
    IN  IF s # <<>> /\ s[1] \in {"Z", "z"} THEN Scanned(0, Tail(s))
        ELSE Made(Number(Step(Number(Step(Cursor(s), LAMBDA r : ScanChar(r, {"+", "-"}), TRUE)),
                              LAMBDA r : ScanChar(r, {":"}), FALSE)))

\* Parsed::to_datetime: the scanned local fields and offset as a DateTime,
\* second 60 read as a leap second
FieldsToDateTime(y, mo, d, h, mi, sec, nano, off) ==
    IF ValidYmd(y, mo, d) /\ h < 24 /\ mi < 60 /\ sec <= 60 /\ -86400 < off /\ off < 86400
    THEN from_local_datetime(
            [y |-> y, m |-> mo, d |-> d,
             secs |-> h * 3600 + mi * 60 + (IF sec = 60 THEN 59 ELSE sec),
             frac |-> IF sec = 60 THEN nano + 1000000000 ELSE nano], off)
    ELSE None

\* DateTime::parse_from_rfc3339
parse_from_rfc3339(s) ==
    LET Number(p) == Step(p, LAMBDA r : ScanNumber(r, 2, 2), TRUE)
        Char(p, cs) == Step(p, LAMBDA r : ScanChar(r, cs), FALSE)
        Date(p) ==
            Number(Char(Number(Char(Step(p, LAMBDA r : ScanNumber(r, 4, 4), TRUE), {"-"})), {"-"}))
        Time(p) == Number(Char(Number(Char(Number(Char(p, {"T", "t", " "})), {":"})), {":"}))
        Fraction(p) ==
            IF p.ok /\ p.rest # <<>> /\ p.rest[1] = "."
            THEN Step(Char(p, {"."}), LAMBDA r : ScanNanosecond(r), TRUE)
            ELSE Step(p, LAMBDA r : Scanned(0, r), TRUE)
        Made(p) ==
            IF ~p.ok \/ p.rest # <<>> THEN None
            ELSE FieldsToDateTime(p.vals[1], p.vals[2], p.vals[3], p.vals[4], p.vals[5],
                                  p.vals[6], p.vals[7], p.vals[8])
    IN  Made(Step(Fraction(Time(Date(Cursor(s)))), LAMBDA r : ScanOffsetColon(r), TRUE))

(***************************************************************************)
(* Names of months and weekdays                                            *)
(***************************************************************************)
LongMonths ==
    << <<"J", "a", "n", "u", "a", "r", "y">>,
       <<"F", "e", "b", "r", "u", "a", "r", "y">>,
       <<"M", "a", "r", "c", "h">>,
       <<"A", "p", "r", "i", "l">>,
       <<"M", "a", "y">>,
       <<"J", "u", "n", "e">>,
       <<"J", "u", "l", "y">>,
       <<"A", "u", "g", "u", "s", "t">>,
       <<"S", "e", "p", "t", "e", "m", "b", "e", "r">>,
       <<"O", "c", "t", "o", "b", "e", "r">>,
       <<"N", "o", "v", "e", "m", "b", "e", "r">>,
       <<"D", "e", "c", "e", "m", "b", "e", "r">> >>

\* the month names of locale nl_NL
LongMonthsNl ==
    << <<"j", "a", "n", "u", "a", "r", "i">>,
       <<"f", "e", "b", "r", "u", "a", "r", "i">>,
       <<"m", "a", "a", "r", "t">>,
       <<"a", "p", "r", "i", "l">>,
       <<"m", "e", "i">>,
       <<"j", "u", "n", "i">>,
       <<"j", "u", "l", "i">>,
       <<"a", "u", "g", "u", "s", "t", "u", "s">>,
       <<"s", "e", "p", "t", "e", "m", "b", "e", "r">>,
       <<"o", "k", "t", "o", "b", "e", "r">>,
       <<"n", "o", "v", "e", "m", "b", "e", "r">>,
       <<"d", "e", "c", "e", "m", "b", "e", "r">> >>

ShortWeekdays ==
    << <<"S", "u", "n">>,
       <<"M", "o", "n">>,
       <<"T", "u", "e">>,
       <<"W", "e", "d">>,
       <<"T", "h", "u">>,
       <<"F", "r", "i">>,
       <<"S", "a", "t">> >>

ShortMonth(i) == Take(LongMonths[i], 3)

\* the zone names RFC 2822 gives an offset, with that offset in hours
ZoneNames ==
    << [name |-> <<"U", "T">>, hours |-> 0],
       [name |-> <<"G", "M", "T">>, hours |-> 0],
       [name |-> <<"E", "D", "T">>, hours |-> -4],
       [name |-> <<"E", "S", "T">>, hours |-> -5],
       [name |-> <<"C", "D", "T">>, hours |-> -5],
       [name |-> <<"C", "S", "T">>, hours |-> -6],
       [name |-> <<"M", "D", "T">>, hours |-> -6],
       [name |-> <<"M", "S", "T">>, hours |-> -7],
       [name |-> <<"P", "D", "T">>, hours |-> -7],
       [name |-> <<"P", "S", "T">>, hours |-> -8] >>

\* a name of the table s starts with, compared without regard to case:
\* its index, or 0
NameIndex(s, names) ==
    LET Longest(hits) ==
            IF hits = {} THEN 0
            ELSE CHOOSE i \in hits : \A j \in hits : Len(names[j]) <= Len(names[i])
    IN  Longest({i \in 1..Len(names) : StartsWith(to_lowercase(s), to_lowercase(names[i]))})

(***************************************************************************)
(* RFC 2822                                                                *)
(***************************************************************************)
\* DateTime::to_rfc2822: None stands for the panic of its expect() when the
\* year is outside 0..=9999
to_rfc2822(dt) ==
    LET Text(n, c) ==
            ShortWeekdays[Weekday(DaysFromCivil(n.y, n.m, n.d)) + 1] \o <<",", " ">>
            \o DigitsText(NatDigits(n.d)) \o <<" ">> \o ShortMonth(n.m) \o <<" ">>
            \o PadNum(n.y, 4) \o <<" ">> \o PadNum(c.hour, 2) \o <<":">>
            \o PadNum(c.minute, 2) \o <<":">> \o PadNum(c.second, 2) \o <<" ">>
            \o OffsetText(dt.off, FALSE)
        Local(n) == IF n.y < 0 \/ n.y > 9999 THEN None ELSE Some(Text(n, ClockFields(n)))
    IN  Local(naive_local(dt))

Whitespace == {" ", "\t", "\n"}

\* scan::space: at least one whitespace character
ScanSpace(s) ==
    IF s # <<>> /\ s[1] \in Whitespace THEN Scanned(" ", TrimStart(s, Whitespace)) ELSE NoScan

\* the optional "Www," in front of the date: 0 when absent, -1 when the name
\* is not followed by the comma
ScanWeekday(s) ==
    LET Named(i) ==
            IF i = 0 THEN Scanned(0, s)
            ELSE IF Len(s) >= 4 /\ s[4] = "," THEN Scanned(i, Drop(s, 4))
            ELSE NoScan
    IN  Named(NameIndex(s, ShortWeekdays))

ScanShortMonth(s) ==
    LET Named(i) == IF i = 0 THEN NoScan ELSE Scanned(i, Drop(s, 3))
    IN  Named(NameIndex(s, [k \in 1..12 |-> ShortMonth(k)]))

\* the year of RFC 2822: two digits are read as 19yy (50..99) or 20yy (00..49),
\* three digits as 1900 + yyy
ScanYear2822(s) ==
    LET n == DigitRun(s, 9)
        v == TextVal(Take(s, n), 0)
    IN  IF n < 2 THEN NoScan
        ELSE Scanned(IF n = 2 /\ v < 50 THEN v + 2000
                     ELSE IF n <= 3 THEN v + 1900 ELSE v, Drop(s, n))

\* scan::timezone_offset_2822: +HHMM / -HHMM, or one of the named zones
ScanOffset2822(s) ==
    LET Number(p) == Step(p, LAMBDA r : ScanNumber(r, 2, 2), TRUE)
        Numeric(p) ==
            IF ~p.ok \/ p.vals[3] >= 60 THEN NoScan
            ELSE Scanned((IF p.vals[1] = "-" THEN -1 ELSE 1)
                            * (p.vals[2] * 3600 + p.vals[3] * 60), p.rest)
        Named(z) ==
            IF z = 0 THEN NoScan
            ELSE Scanned(ZoneNames[z].hours * 3600, Drop(s, Len(ZoneNames[z].name)))
    IN  IF s # <<>> /\ s[1] \in {"+", "-"}
        THEN Numeric(Number(Number(Step(Cursor(s), LAMBDA r : ScanChar(r, {"+", "-"}), TRUE))))
        ELSE Named(NameIndex(s, [k \in 1..Len(ZoneNames) |-> ZoneNames[k].name]))

\* DateTime::parse_from_rfc2822 ("Wed, 09 Aug 1989 09:30:11 +0200"); comments
\* in parentheses and the one-letter military zones are not modelled.  A
\* weekday that is not the date's weekday makes the parse fail.
parse_from_rfc2822(s) ==
    LET Space(p) == Step(p, LAMBDA r : ScanSpace(r), FALSE)
        Colon(p) == Step(p, LAMBDA r : ScanChar(TrimStart(r, Whitespace), {":"}), FALSE)
        Number(p) == Step(p, LAMBDA r : ScanNumber(TrimStart(r, Whitespace), 2, 2), TRUE)
        Date(p) ==
            Step(Space(Step(Space(Step(Step(p, LAMBDA r : ScanWeekday(r), TRUE),
                                       LAMBDA r : ScanNumber(TrimStart(r, Whitespace), 1, 2), TRUE)),
                            LAMBDA r : ScanShortMonth(r), TRUE)),
                 LAMBDA r : ScanYear2822(r), TRUE)
        Second(p) ==
            IF p.ok /\ TrimStart(p.rest, Whitespace) # <<>> /\ TrimStart(p.rest, Whitespace)[1] = ":"
            THEN Number(Colon(p))
            ELSE Step(p, LAMBDA r : Scanned(0, r), TRUE)
        Time(p) == Second(Number(Colon(Step(Space(p), LAMBDA r : ScanNumber(r, 2, 2), TRUE))))
        Checked(v, dt) ==
            IF ~dt.some THEN None
            ELSE IF v[1] # 0 /\ v[1] # Weekday(DaysFromCivil(v[4], v[3], v[2])) + 1 THEN None
            ELSE dt
        Made(p) ==
            IF ~p.ok \/ TrimStart(p.rest, Whitespace) # <<>> THEN None
            ELSE Checked(p.vals, FieldsToDateTime(p.vals[4], p.vals[3], p.vals[2], p.vals[5],
                                                  p.vals[6], p.vals[7], 0, p.vals[8]))
    IN  Made(Step(Space(Time(Date(Cursor(TrimStart(s, Whitespace))))),
                  LAMBDA r : ScanOffset2822(r), TRUE))

(***************************************************************************)
(* The strftime pattern language of format / parse_from_str.  Modelled     *)
(* specifiers: %Y %m %d %H %M %S %B and %%; any other character after '%'  *)
(* (and a '%' at the end) is an unknown specifier, Item::Error.            *)
(***************************************************************************)
NumericSpecs == {"Y", "m", "d", "H", "M", "S"}

RECURSIVE StrftimeItems(_)
StrftimeItems(f) ==
    IF f = <<>> THEN <<>>
    ELSE IF f[1] = "%"
    THEN (IF Len(f) < 2 THEN <<[t |-> "error", c |-> "%"]>>
          ELSE IF f[2] \in NumericSpecs
              THEN <<[t |-> "numeric", c |-> f[2]]>> \o StrftimeItems(Drop(f, 2))
          ELSE IF f[2] = "B"
              THEN <<[t |-> "month", c |-> "B"]>> \o StrftimeItems(Drop(f, 2))
          ELSE IF f[2] = "%"
              THEN <<[t |-> "literal", c |-> "%"]>> \o StrftimeItems(Drop(f, 2))
          ELSE <<[t |-> "error", c |-> f[2]]>> \o StrftimeItems(Drop(f, 2)))
    ELSE IF f[1] \in Whitespace
        THEN <<[t |-> "space", c |-> f[1]]>> \o StrftimeItems(Tail(f))
    ELSE <<[t |-> "literal", c |-> f[1]]>> \o StrftimeItems(Tail(f))

\* chrono::Locale of the locale tags this model knows
LocaleEnUS == <<"e", "n", "_", "U", "S">>

LocaleNlNL == <<"n", "l", "_", "N", "L">>

\* Locale::from_str
Locale_from_str(s) == IF s \in {LocaleEnUS, LocaleNlNL} THEN Some(s) ELSE None

MonthNames(locale) == IF locale = LocaleNlNL THEN LongMonthsNl ELSE LongMonths

FormatItem(item, n, locale) ==
    LET c == ClockFields(n)
    IN  CASE item.t = "numeric" /\ item.c = "Y" -> YearText(n.y)
          [] item.t = "numeric" /\ item.c = "m" -> PadNum(n.m, 2)
          [] item.t = "numeric" /\ item.c = "d" -> PadNum(n.d, 2)
          [] item.t = "numeric" /\ item.c = "H" -> PadNum(c.hour, 2)
          [] item.t = "numeric" /\ item.c = "M" -> PadNum(c.minute, 2)
          [] item.t = "numeric" /\ item.c = "S" -> PadNum(c.second, 2)
          [] item.t = "month" -> MonthNames(locale)[n.m]
          [] OTHER -> <<item.c>>

RECURSIVE FormatItems(_, _, _)
FormatItems(items, n, locale) ==
    IF items = <<>> THEN <<>>
    ELSE FormatItem(items[1], n, locale) \o FormatItems(Tail(items), n, locale)

\* format!("{}", datetime.format_localized(fmt, locale)): None stands for the
\* panic of format! when the pattern holds an unknown specifier
format_localized(dt, fmt, locale) ==
    LET items == StrftimeItems(fmt)
    IN  IF \E i \in 1..Len(items) : items[i].t = "error" THEN None
        ELSE Some(FormatItems(items, naive_local(dt), locale))

\* format!("{}", datetime.format(fmt))
format(dt, fmt) == format_localized(dt, fmt, LocaleEnUS)

\* the fields Parsed has collected; -1 for a field not set
NoFields == [Y |-> -1, m |-> -1, d |-> -1, H |-> -1, M |-> -1, S |-> -1]

\* a numeric item of parse: leading whitespace is skipped; the year takes up
\* to four digits, or a sign and then any number of digits; the others take
\* one or two digits
ScanNumeric(c, s) ==
    LET r == TrimStart(s, Whitespace)
        sign == ScanChar(r, {"+", "-"})
        num == ScanNumber(sign.rest, 1, 9)
    IN  IF c # "Y" THEN ScanNumber(r, 1, 2)
        ELSE IF ~sign.ok THEN ScanNumber(r, 1, 4)
        ELSE IF ~num.ok THEN NoScan
        ELSE Scanned(IF sign.v = "-" THEN -num.v ELSE num.v, num.rest)

\* scan::short_or_long_month0
ScanMonthName(s) ==
    LET Long(short, suffix) ==
            IF suffix # <<>> /\ StartsWith(to_lowercase(short.rest), to_lowercase(suffix))
            THEN Scanned(short.v, Drop(short.rest, Len(suffix)))
            ELSE short
        Short(short) == IF ~short.ok THEN NoScan ELSE Long(short, Drop(LongMonths[short.v], 3))
    IN  Short(ScanShortMonth(s))

\* Parsed::set_*: a field set twice must be set to the same value
SetField(fields, c, v) ==
    IF fields[c] # -1 /\ fields[c] # v THEN None ELSE Some([fields EXCEPT ![c] = v])

RECURSIVE ParseItems(_, _, _)
ParseItems(items, s, fields) ==
    LET Set(r, set) == IF set.some THEN ParseItems(Tail(items), r.rest, set.v) ELSE None
        Field(r, c) == IF r.ok THEN Set(r, SetField(fields, c, r.v)) ELSE None
    IN  IF items = <<>> THEN (IF s = <<>> THEN Some(fields) ELSE None)
        ELSE CASE items[1].t = "error" -> None
               [] items[1].t = "space" ->
                    ParseItems(Tail(items), TrimStart(s, Whitespace), fields)
               [] items[1].t = "literal" ->
                    IF s # <<>> /\ s[1] = items[1].c
                    THEN ParseItems(Tail(items), Tail(s), fields) ELSE None
               [] items[1].t = "numeric" -> Field(ScanNumeric(items[1].c, s), items[1].c)
               [] OTHER -> Field(ScanMonthName(s), "m")

\* NaiveDateTime::parse_from_str(s, fmt).and_utc(): the date, the hour and the
\* minute must all be given; the second defaults to 0
parse_from_str(s, fmt) ==
    LET Made(f) ==
            IF f.Y = -1 \/ f.m = -1 \/ f.d = -1 \/ f.H = -1 \/ f.M = -1 THEN None
            ELSE FieldsToDateTime(f.Y, f.m, f.d, f.H, f.M, IF f.S = -1 THEN 0 ELSE f.S, 0, 0)
        Parsed(p) == IF ~p.some THEN None ELSE Made(p.v)
    IN  Parsed(ParseItems(StrftimeItems(fmt), s, NoFields))

(***************************************************************************)
(* HandlebarsChronoDateTime::call                                          *)
(*                                                                         *)
(* h        the helper's hash: parameter name -> rendered text             *)
(* now      Utc::now() of this invocation                                  *)
(* localTz  the zone of chrono::Local in this process                      *)
(* sinkOk   whether the Output sink accepts a write                        *)
(* pc       the statement of call() to run next                            *)
(* datetime the running datetime binding (None before the initializers)    *)
(* output   the output string of the finalizers                            *)
(* out      what has been written to the Output sink                       *)
(* result   the HelperResult returned (Running until call() returns)       *)
(* start    history: the DateTime the initializers produced                *)
(* steps    history: the hash parameters call() has evaluated, in order    *)
(*          ("now" / "to_rfc3339" for the default initializer / finalizer) *)
(***************************************************************************)
VARIABLES h, now, localTz, sinkOk, pc, datetime, output, out, result, start, steps

vars == <<h, now, localTz, sinkOk, pc, datetime, output, out, result, start, steps>>

\* Helper::hash_get(name).map(|v| v.render())
has(hash, name) == name \in DOMAIN hash

\* Result<_, RenderError>: RenderErrorReason::Other(format!("{desc}: {cause}")),
\* arg the parameter text a message echoes
Okay(v) == [ok |-> TRUE, v |-> v]

Fail(desc, cause, arg) ==
    [ok |-> FALSE, err |-> [tag |-> "Err", desc |-> desc, cause |-> cause, arg |-> arg]]

Running == [tag |-> "Running"]

ResultOk == [tag |-> "Ok"]

\* a panic unwinding out of call(): no HelperResult is returned
Panicked == [tag |-> "Panic"]

(***************************************************************************)
(* INITIALIZERS (lines 60-137)                                             *)
(***************************************************************************)
from_timestamp(text) ==
    LET Made(p, r) ==
            IF ~p.ok THEN Fail("Invalid seconds timestamp", p.why, <<>>)
            ELSE IF ~r.some THEN Fail("Out-of-range number of seconds", "", <<>>)
            ELSE Okay(r.v)
        Parsed(p) == Made(p, from_count(p.val, 0))
    IN  Parsed(parse(text, "i64"))

from_timestamp_millis(text) ==
    LET Made(p, r) ==
            IF ~p.ok THEN Fail("Invalid milli-seconds timestamp", p.why, <<>>)
            ELSE IF ~r.some THEN Fail("Out-of-range number of milliseconds", "", <<>>)
            ELSE Okay(r.v)
        Parsed(p) == Made(p, from_count(p.val, 3))
    IN  Parsed(parse(text, "i64"))

from_timestamp_micros(text) ==
    LET Made(p, r) ==
            IF ~p.ok THEN Fail("Invalid micro-seconds timestamp", p.why, <<>>)
            ELSE IF ~r.some
                THEN Fail("Number of microseconds would be out of range for a NaiveDateTime (more than ca. 262,000 years away from common era)", "", <<>>)
            ELSE Okay(r.v)
        Parsed(p) == Made(p, from_count(p.val, 6))
    IN  Parsed(parse(text, "i64"))

\* a variant of from_timestamp_nanos that reads the count as microseconds
from_timestamp_nanos_as_micros(text) ==
    LET Made(p, r) ==
            IF ~p.ok THEN Fail("Invalid nano-seconds timestamp", p.why, <<>>)
            ELSE IF ~r.some THEN Fail("Out-of-range number of nanoseconds", "", <<>>)
            ELSE Okay(r.v)
        Parsed(p) == Made(p, from_count(p.val, 6))
    IN  Parsed(parse(text, "i64"))

\* DateTime::from_timestamp_nanos is infallible: every i64 is in range
from_timestamp_nanos(text) ==
    LET Parsed(p) ==
            IF ~p.ok THEN Fail("Invalid nano-seconds timestamp", p.why, <<>>)
            ELSE Okay(from_count(p.val, 9).v)
    IN  Parsed(parse(text, "i64"))

from_rfc2822(text) ==
    LET Parsed(r) ==
            IF ~r.some THEN Fail("Invalid RFC2822 datetime format", "ParseError", <<>>)
            ELSE Okay(to_utc(r.v))
    IN  Parsed(parse_from_rfc2822(text))

from_rfc3339(text) ==
    LET Parsed(r) ==
            IF ~r.some THEN Fail("Invalid RFC3339 datetime format", "ParseError", <<>>)
            ELSE Okay(to_utc(r.v))
    IN  Parsed(parse_from_rfc3339(text))

\* a variant of from_str that reads the text as %Y-%m-%d %H:%M:%S when
\* input_format is absent
from_str_default_format(hash) ==
    LET Parsed(r) ==
            IF ~r.some
            THEN Fail("Invalid datetime format or format doesn't match input", "ParseError", <<>>)
            ELSE Okay(r.v)
        DefaultFormat ==
            <<"%", "Y", "-", "%", "m", "-", "%", "d", " ", "%", "H", ":", "%", "M", ":", "%", "S">>
    IN  IF ~has(hash, "input_format")
        THEN Parsed(parse_from_str(hash["from_str"], DefaultFormat))
        ELSE Parsed(parse_from_str(hash["from_str"], hash["input_format"]))

\* the message of line 121 is written without the backquotes the source puts
\* around input_format
from_str(hash) ==
    LET Parsed(r) ==
            IF ~r.some
            THEN Fail("Invalid datetime format or format doesn't match input", "ParseError", <<>>)
            ELSE Okay(r.v)
    IN  IF ~has(hash, "input_format")
        THEN Fail("Missing input_format hash parameter", "", <<>>)
        ELSE Parsed(parse_from_str(hash["from_str"], hash["input_format"]))

\* a variant of InitializerKey that tries from_rfc3339 before from_rfc2822
InitializerKey_rfc3339_first(hash) ==
    IF has(hash, "from_timestamp") THEN "from_timestamp"
    ELSE IF has(hash, "from_timestamp_millis") THEN "from_timestamp_millis"
    ELSE IF has(hash, "from_timestamp_micros") THEN "from_timestamp_micros"
    ELSE IF has(hash, "from_timestamp_nanos") THEN "from_timestamp_nanos"
    ELSE IF has(hash, "from_rfc3339") THEN "from_rfc3339"
    ELSE IF has(hash, "from_rfc2822") THEN "from_rfc2822"
    ELSE IF has(hash, "from_str") THEN "from_str"
    ELSE "now"

\* the hash parameter the if / else-if chain of the initializers selects
InitializerKey(hash) ==
    IF has(hash, "from_timestamp") THEN "from_timestamp"
    ELSE IF has(hash, "from_timestamp_millis") THEN "from_timestamp_millis"
    ELSE IF has(hash, "from_timestamp_micros") THEN "from_timestamp_micros"
    ELSE IF has(hash, "from_timestamp_nanos") THEN "from_timestamp_nanos"
    ELSE IF has(hash, "from_rfc2822") THEN "from_rfc2822"
    ELSE IF has(hash, "from_rfc3339") THEN "from_rfc3339"
    ELSE IF has(hash, "from_str") THEN "from_str"
    ELSE "now"

\* a variant of InitializerBranch that reads the clock one hour east of UTC when
\* no initializer is present
InitializerBranch_local_now(key, hash, clock) ==
    CASE key = "from_timestamp" -> from_timestamp(hash[key])
      [] key = "from_timestamp_millis" -> from_timestamp_millis(hash[key])
      [] key = "from_timestamp_micros" -> from_timestamp_micros(hash[key])
      [] key = "from_timestamp_nanos" -> from_timestamp_nanos(hash[key])
      [] key = "from_rfc2822" -> from_rfc2822(hash[key])
      [] key = "from_rfc3339" -> from_rfc3339(hash[key])
      [] key = "from_str" -> from_str(hash)
      [] OTHER -> Okay(with_timezone(clock, 3600))

\* one branch of the chain
InitializerBranch(key, hash, clock) ==
    CASE key = "from_timestamp" -> from_timestamp(hash[key])
      [] key = "from_timestamp_millis" -> from_timestamp_millis(hash[key])
      [] key = "from_timestamp_micros" -> from_timestamp_micros(hash[key])
      [] key = "from_timestamp_nanos" -> from_timestamp_nanos(hash[key])
      [] key = "from_rfc2822" -> from_rfc2822(hash[key])
      [] key = "from_rfc3339" -> from_rfc3339(hash[key])
      [] key = "from_str" -> from_str(hash)
      [] OTHER -> Okay(clock)

(***************************************************************************)
(* MODIFIERS (lines 139-607).  The crate's timezone and locale             *)
(* features are enabled.                                                   *)
(***************************************************************************)
LocalText == <<"l", "o", "c", "a", "l">>

\* a variant of with_timezone_param that gives a named zone the offset it has at
\* the moment of the call
with_timezone_param_at_call(text, dt, clock, zone) ==
    LET Fixed(fixed) ==
            IF fixed.some THEN Okay(with_timezone(dt, fixed.v))
            ELSE Fail("Failed to parse timezone offset. Supported values are IANA timezones, local or valid fixed offset", "", <<>>)
        Named(tz) ==
            IF tz.some THEN Okay(with_timezone(dt, TzOffsetAt(tz.v, clock)))
            ELSE Fail("Failed to parse IANA timezone. Supported values are IANA timezones, local or valid fixed offset", "", <<>>)
    IN  IF to_lowercase(text) = LocalText
        THEN Okay(with_timezone(dt, TzOffsetAt(zone, clock)))
        ELSE IF contains(text, "0") THEN Fixed(FixedOffset_from_str(text))
        ELSE Named(Tz_from_str(text))

\* lines 171-205: local is the offset chrono::Local has now; a text that
\* contains the character '0' is read as a fixed offset; any other text is read
\* as an IANA zone and resolved to the offset the zone has at the running
\* instant
with_timezone_param(text, dt, clock, zone) ==
    LET Fixed(fixed) ==
            IF fixed.some THEN Okay(with_timezone(dt, fixed.v))
            ELSE Fail("Failed to parse timezone offset. Supported values are IANA timezones, local or valid fixed offset", "", <<>>)
        Named(tz) ==
            IF tz.some THEN Okay(with_timezone(dt, TzOffsetAt(tz.v, dt)))
            ELSE Fail("Failed to parse IANA timezone. Supported values are IANA timezones, local or valid fixed offset", "", <<>>)
    IN  IF to_lowercase(text) = LocalText
        THEN Okay(with_timezone(dt, TzOffsetAt(zone, clock)))
        ELSE IF contains(text, "0") THEN Fixed(FixedOffset_from_str(text))
        ELSE Named(Tz_from_str(text))

FieldSetterKeys ==
    << "with_ordinal", "with_ordinal0", "with_year", "with_month",
       "with_month0", "with_day", "with_day0", "with_hour", "with_minute",
       "with_second", "with_nanosecond" >>

AddKeys ==
    << "add_months", "add_weeks", "add_days", "add_hours", "add_minutes",
       "add_seconds", "add_milliseconds", "add_microseconds",
       "add_nanoseconds" >>

SubKeys ==
    << "sub_months", "sub_weeks", "sub_days", "sub_hours", "sub_minutes",
       "sub_seconds", "sub_milliseconds", "sub_microseconds",
       "sub_nanoseconds" >>

\* a variant of ModifierOrder that runs the additions before the field setters
ModifierOrder_additions_first == <<"with_timezone">> \o AddKeys \o FieldSetterKeys \o SubKeys

\* the order of the let datetime = ... statements of lines 171-607
ModifierOrder == <<"with_timezone">> \o FieldSetterKeys \o AddKeys \o SubKeys

InSeq(x, s) == \E i \in 1..Len(s) : s[i] = x

\* the format!("Invalid ... parameter: {}", e) of a modifier
InvalidDesc(key) ==
    CASE key = "with_ordinal" -> "Invalid ordinal parameter"
      [] key = "with_ordinal0" -> "Invalid ordinal parameter"
      [] key = "with_year" -> "Invalid year parameter"
      [] key = "with_month" -> "Invalid month parameter"
      [] key = "with_month0" -> "Invalid month parameter"
      [] key = "with_day" -> "Invalid day parameter"
      [] key = "with_day0" -> "Invalid day parameter"
      [] key = "with_hour" -> "Invalid hour parameter"
      [] key = "with_minute" -> "Invalid minute parameter"
      [] key = "with_second" -> "Invalid second parameter"
      [] key = "with_nanosecond" -> "Invalid nano-second parameter"
      [] key = "add_months" -> "Invalid months parameter"
      [] key = "add_weeks" -> "Invalid weeks parameter"
      [] key = "add_days" -> "Invalid days parameter"
      [] key = "add_hours" -> "Invalid hours parameter"
      [] key = "add_minutes" -> "Invalid minutes parameter"
      [] key = "add_seconds" -> "Invalid seconds parameter"
      [] key = "add_milliseconds" -> "Invalid milli-seconds parameter"
      [] key = "add_microseconds" -> "Invalid micro-seconds parameter"
      [] key = "add_nanoseconds" -> "Invalid nano-seconds parameter"
      [] key = "sub_months" -> "Invalid months parameter"
      [] key = "sub_weeks" -> "Invalid weeks parameter"
      [] key = "sub_days" -> "Invalid days parameter"
      [] key = "sub_hours" -> "Invalid hours parameter"
      [] key = "sub_minutes" -> "Invalid minutes parameter"
      [] key = "sub_seconds" -> "Invalid seconds parameter"
      [] key = "sub_milliseconds" -> "Invalid milli-seconds parameter"
      [] key = "sub_microseconds" -> "Invalid micro-seconds parameter"
      [] key = "sub_nanoseconds" -> "Invalid nano-seconds parameter"

\* the ok_or message of a modifier's chrono call
RangeDesc(key) ==
    CASE key = "with_ordinal" -> "Ordinal parameter out of range"
      [] key = "with_ordinal0" -> "Ordinal parameter out of range"
      [] key = "with_year" -> "Year parameter out of range or produces invalid date"
      [] key = "with_month" -> "Month parameter out of range or produces invalid date"
      [] key = "with_month0" -> "Month parameter out of range or produces invalid date"
      [] key = "with_day" -> "Day parameter out of range or produces invalid date"
      [] key = "with_day0" -> "Day parameter out of range or produces invalid date"
      [] key = "with_hour" -> "Hour parameter out of range or produces invalid date"
      [] key = "with_minute" -> "Minute parameter out of range or produces invalid date"
      [] key = "with_second" -> "Second parameter out of range or produces invalid date"
      [] key = "with_nanosecond" -> "Nano-second parameter out of range or produces invalid date"
      [] key = "add_months" -> "Months parameter out of range or produces invalid date"
      [] key = "add_weeks" -> "Weeks parameter out of range or produces invalid date"
      [] key = "add_days" -> "Days parameter out of range or produces invalid date"
      [] key = "add_hours" -> "Hours parameter out of range or produces invalid date"
      [] key = "add_minutes" -> "Minutes parameter out of range or produces invalid date"
      [] key = "add_seconds" -> "Seconds parameter out of range or produces invalid date"
      [] key = "add_milliseconds" -> "Milli-seconds parameter out of range or produces invalid date"
      [] key = "add_microseconds" -> "Micro-seconds parameter out of range or produces invalid date"
      [] key = "add_nanoseconds" -> "Nano-seconds parameter out of range or produces invalid date"
      [] key = "sub_months" -> "Months parameter out of range or produces invalid date"
      [] key = "sub_weeks" -> "Weeks parameter out of range or produces invalid date"
      [] key = "sub_days" -> "Days parameter out of range or produces invalid date"
      [] key = "sub_hours" -> "Hours parameter out of range or produces invalid date"
      [] key = "sub_minutes" -> "Minutes parameter out of range or produces invalid date"
      [] key = "sub_seconds" -> "Seconds parameter out of range or produces invalid date"
      [] key = "sub_milliseconds" -> "Milli-seconds parameter out of range or produces invalid date"
      [] key = "sub_microseconds" -> "Micro-seconds parameter out of range or produces invalid date"
      [] key = "sub_nanoseconds" -> "Nano-seconds parameter out of range or produces invalid date"

\* the ok_or message of TimeDelta::try_*
DeltaRangeDesc(key) ==
    CASE key = "add_weeks" -> "Weeks parameter out of range"
      [] key = "add_hours" -> "Hours parameter out of range"
      [] key = "add_minutes" -> "Minutes parameter out of range"
      [] key = "add_seconds" -> "Seconds parameter out of range"
      [] key = "add_milliseconds" -> "Milli-seconds parameter out of range"
      [] key = "sub_weeks" -> "Weeks parameter out of range"
      [] key = "sub_hours" -> "Hours parameter out of range"
      [] key = "sub_minutes" -> "Minutes parameter out of range"
      [] key = "sub_seconds" -> "Seconds parameter out of range"
      [] key = "sub_milliseconds" -> "Milli-seconds parameter out of range"

UnitOf(key) ==
    CASE key = "add_months" -> "months"
      [] key = "add_weeks" -> "weeks"
      [] key = "add_days" -> "days"
      [] key = "add_hours" -> "hours"
      [] key = "add_minutes" -> "minutes"
      [] key = "add_seconds" -> "seconds"
      [] key = "add_milliseconds" -> "milliseconds"
      [] key = "add_microseconds" -> "microseconds"
      [] key = "add_nanoseconds" -> "nanoseconds"
      [] key = "sub_months" -> "months"
      [] key = "sub_weeks" -> "weeks"
      [] key = "sub_days" -> "days"
      [] key = "sub_hours" -> "hours"
      [] key = "sub_minutes" -> "minutes"
      [] key = "sub_seconds" -> "seconds"
      [] key = "sub_milliseconds" -> "milliseconds"
      [] key = "sub_microseconds" -> "microseconds"
      [] key = "sub_nanoseconds" -> "nanoseconds"

\* a variant of ParamType that reads the count of add_days and sub_days as a
\* signed integer
ParamType_signed_days(key) ==
    IF key = "with_year" THEN "i32"
    ELSE IF key \in {"add_months", "sub_months"} \/ InSeq(key, FieldSetterKeys) THEN "u32"
    ELSE "i64"

\* the integer type a modifier's text is parsed as
ParamType(key) ==
    IF key = "with_year" THEN "i32"
    ELSE IF key \in {"add_days", "sub_days"} THEN "u64"
    ELSE IF key \in {"add_months", "sub_months"} \/ InSeq(key, FieldSetterKeys) THEN "u32"
    ELSE "i64"

\* the Datelike / Timelike call of a field setter (lines 207-337)
SetField_call(key, dt, v) ==
    CASE key = "with_ordinal" -> with_ordinal(dt, v)
      [] key = "with_ordinal0" -> with_ordinal0(dt, v)
      [] key = "with_year" -> with_year(dt, v)
      [] key = "with_month" -> with_month(dt, v)
      [] key = "with_month0" -> with_month0(dt, v)
      [] key = "with_day" -> with_day(dt, v)
      [] key = "with_day0" -> with_day0(dt, v)
      [] key = "with_hour" -> with_hour(dt, v)
      [] key = "with_minute" -> with_minute(dt, v)
      [] key = "with_second" -> with_second(dt, v)
      [] key = "with_nanosecond" -> with_nanosecond(dt, v)

\* lines 207-337: one field setter
field_setter_param(key, text, dt) ==
    LET Made(r) == IF ~r.some THEN Fail(RangeDesc(key), "", <<>>) ELSE Okay(r.v)
        Parsed(p) ==
            IF ~p.ok THEN Fail(InvalidDesc(key), p.why, <<>>)
            ELSE Made(SetField_call(key, dt, BigSmall(p.val)))
    IN  Parsed(parse(text, ParamType(key)))

\* lines 341-607: one add_* (sign = 1) or sub_* (sign = -1) delta
delta_param(key, text, dt, sign) ==
    LET Made(r) == IF ~r.some THEN Fail(RangeDesc(key), "", <<>>) ELSE Okay(r.v)
        Delta(td) ==
            IF ~td.some THEN Fail(DeltaRangeDesc(key), "", <<>>)
            ELSE Made(checked_add_signed(dt, td.v, sign))
        Parsed(p) ==
            IF ~p.ok THEN Fail(InvalidDesc(key), p.why, <<>>)
            ELSE CASE UnitOf(key) = "months" ->
                        Made(IF sign = 1 THEN checked_add_months(dt, BigSmall(p.val))
                             ELSE checked_sub_months(dt, BigSmall(p.val)))
                   [] UnitOf(key) = "days" ->
                        Made(IF sign = 1 THEN checked_add_days(dt, BigSmall(p.val))
                             ELSE checked_sub_days(dt, BigSmall(p.val)))
                   [] OTHER -> Delta(TimeDelta(p.val, UnitOf(key)))
    IN  Parsed(parse(text, ParamType(key)))

\* one let datetime = if let Some(..) = h.hash_get(key) { .. } else { datetime }
Modifier(key, hash, dt, clock, zone) ==
    IF ~has(hash, key) THEN Okay(IF key = "with_timezone" THEN fixed_offset(dt) ELSE dt)
    ELSE IF key = "with_timezone" THEN with_timezone_param(hash[key], dt, clock, zone)
    ELSE IF InSeq(key, FieldSetterKeys) THEN field_setter_param(key, hash[key], dt)
    ELSE IF InSeq(key, AddKeys) THEN delta_param(key, hash[key], dt, 1)
    ELSE delta_param(key, hash[key], dt, -1)

(***************************************************************************)
(* FINALIZERS (lines 609-683)                                              *)
(***************************************************************************)
\* a variant of FinalizerKey that tries years_since before the timestamps
FinalizerKey_years_since_first(hash) ==
    IF has(hash, "output_format") THEN "output_format"
    ELSE IF has(hash, "to_rfc2822") THEN "to_rfc2822"
    ELSE IF has(hash, "years_since") THEN "years_since"
    ELSE IF has(hash, "to_timestamp") THEN "to_timestamp"
    ELSE IF has(hash, "to_timestamp_millis") THEN "to_timestamp_millis"
    ELSE IF has(hash, "to_timestamp_micros") THEN "to_timestamp_micros"
    ELSE IF has(hash, "to_timestamp_nanos") THEN "to_timestamp_nanos"
    ELSE "to_rfc3339"

\* a variant of FinalizerKey that also takes to_timestamp in capital letters
FinalizerKey_any_case(hash) ==
    IF has(hash, "output_format") THEN "output_format"
    ELSE IF has(hash, "to_rfc2822") THEN "to_rfc2822"
    ELSE IF has(hash, "to_timestamp") \/ has(hash, "TO_TIMESTAMP") THEN "to_timestamp"
    ELSE IF has(hash, "to_timestamp_millis") THEN "to_timestamp_millis"
    ELSE IF has(hash, "to_timestamp_micros") THEN "to_timestamp_micros"
    ELSE IF has(hash, "to_timestamp_nanos") THEN "to_timestamp_nanos"
    ELSE IF has(hash, "years_since") THEN "years_since"
    ELSE "to_rfc3339"

\* a variant of FinalizerKey that takes a to_* flag for absent when its value is
\* false
FinalizerKey_reads_flag(hash) ==
    LET on(k) == has(hash, k) /\ hash[k] # <<"f", "a", "l", "s", "e">>
    IN  IF has(hash, "output_format") THEN "output_format"
        ELSE IF on("to_rfc2822") THEN "to_rfc2822"
        ELSE IF on("to_timestamp") THEN "to_timestamp"
        ELSE IF on("to_timestamp_millis") THEN "to_timestamp_millis"
        ELSE IF on("to_timestamp_micros") THEN "to_timestamp_micros"
        ELSE IF on("to_timestamp_nanos") THEN "to_timestamp_nanos"
        ELSE IF has(hash, "years_since") THEN "years_since"
        ELSE "to_rfc3339"

\* the hash parameter the if / else-if chain of the finalizers selects
FinalizerKey(hash) ==
    IF has(hash, "output_format") THEN "output_format"
    ELSE IF has(hash, "to_rfc2822") THEN "to_rfc2822"
    ELSE IF has(hash, "to_timestamp") THEN "to_timestamp"
    ELSE IF has(hash, "to_timestamp_millis") THEN "to_timestamp_millis"
    ELSE IF has(hash, "to_timestamp_micros") THEN "to_timestamp_micros"
    ELSE IF has(hash, "to_timestamp_nanos") THEN "to_timestamp_nanos"
    ELSE IF has(hash, "years_since") THEN "years_since"
    ELSE "to_rfc3339"

PanicOutcome == [ok |-> FALSE, err |-> Panicked]

\* lines 620-644
output_format(hash, dt) ==
    LET Written(text) == IF ~text.some THEN PanicOutcome ELSE Okay(text.v)
        Localized(locale) ==
            IF ~locale.some THEN Fail("Invalid locale provided", "", hash["locale"])
            ELSE Written(format_localized(dt, hash["output_format"], locale.v))
    IN  IF has(hash, "locale") THEN Localized(Locale_from_str(hash["locale"]))
        ELSE Written(format(dt, hash["output_format"]))

\* lines 653-662
to_timestamp_nanos(dt) ==
    LET Written(n) ==
            IF ~n.some
            THEN Fail("An i64 with nanosecond precision can span a range of ~584 years. This timestamp is out of range.", "", <<>>)
            ELSE Okay(to_string(n.v))
    IN  Written(timestamp_nanos_opt(dt))

\* lines 663-678
years_since_param(text, dt) ==
    LET Written(n) ==
            IF ~n.some THEN Fail("Negative range, try swapping the parameters.", "", <<>>)
            ELSE Okay(to_string(BigOf(n.v)))
        Parsed(base) ==
            IF ~base.some THEN Fail("Invalid RFC3339 datetime format", "ParseError", <<>>)
            ELSE Written(years_since(dt, fixed_offset(to_utc(base.v))))
    IN  Parsed(parse_from_rfc3339(text))

\* a variant of FinalizerBranch that parses the locale before the chain
FinalizerBranch_locale_first(key, hash, dt) ==
    LET Written(text) == IF text.some THEN Okay(text.v) ELSE PanicOutcome
    IN  IF has(hash, "locale") /\ ~Locale_from_str(hash["locale"]).some
        THEN Fail("Invalid locale provided", "", hash["locale"])
        ELSE CASE key = "output_format" -> output_format(hash, dt)
               [] key = "to_rfc2822" -> Written(to_rfc2822(dt))
               [] key = "to_timestamp" -> Okay(to_string(timestamp(dt)))
               [] key = "to_timestamp_millis" -> Okay(to_string(timestamp_millis(dt)))
               [] key = "to_timestamp_micros" -> Okay(to_string(timestamp_micros(dt)))
               [] key = "to_timestamp_nanos" -> to_timestamp_nanos(dt)
               [] key = "years_since" -> years_since_param(hash[key], dt)
               [] OTHER -> Okay(to_rfc3339(dt))

\* one branch of the chain; the value of a to_* flag is not read
FinalizerBranch(key, hash, dt) ==
    LET Written(text) == IF text.some THEN Okay(text.v) ELSE PanicOutcome
    IN  CASE key = "output_format" -> output_format(hash, dt)
          [] key = "to_rfc2822" -> Written(to_rfc2822(dt))
          [] key = "to_timestamp" -> Okay(to_string(timestamp(dt)))
          [] key = "to_timestamp_millis" -> Okay(to_string(timestamp_millis(dt)))
          [] key = "to_timestamp_micros" -> Okay(to_string(timestamp_micros(dt)))
          [] key = "to_timestamp_nanos" -> to_timestamp_nanos(dt)
          [] key = "years_since" -> years_since_param(hash[key], dt)
          [] OTHER -> Okay(to_rfc3339(dt))

(***************************************************************************)
(* The steps of call()                                                     *)
(***************************************************************************)
\* the statement after modifier number i
AfterModifier(i) == IF i < Len(ModifierOrder) THEN ModifierOrder[i + 1] ELSE "finalizers"

ModifierIndex(key) == CHOOSE i \in 1..Len(ModifierOrder) : ModifierOrder[i] = key

\* ? / return Err(..): call() returns the error, or unwinds
Return(err) ==
    /\ result' = err
    /\ pc' = "done"

\* lines 60-137
Initializers ==
    /\ pc = "initializers"
    /\ LET Continue(r) ==
               IF r.ok
               THEN /\ datetime' = r.v
                    /\ start' = r.v
                    /\ pc' = ModifierOrder[1]
                    /\ UNCHANGED result
               ELSE /\ Return(r.err)
                    /\ UNCHANGED <<datetime, start>>
           Select(key) ==
               /\ steps' = Append(steps, key)
               /\ Continue(InitializerBranch(key, h, now))
       IN  Select(InitializerKey(h))
    /\ UNCHANGED <<h, now, localTz, sinkOk, output, out>>

\* a variant of ModifierStep that drops a modifier's error and carries on
ModifierStep_lenient ==
    LET Continue(r) ==
            /\ datetime' = IF r.ok THEN r.v ELSE datetime
            /\ pc' = AfterModifier(ModifierIndex(pc))
            /\ UNCHANGED result
    IN  /\ steps' = IF has(h, pc) THEN Append(steps, pc) ELSE steps
        /\ Continue(Modifier(pc, h, datetime, now, localTz))
        /\ UNCHANGED <<h, now, localTz, sinkOk, output, out, start>>

\* the modifier statement pc names
ModifierStep ==
    LET Continue(r) ==
            IF r.ok
            THEN /\ datetime' = r.v
                 /\ pc' = AfterModifier(ModifierIndex(pc))
                 /\ UNCHANGED result
            ELSE /\ Return(r.err)
                 /\ UNCHANGED datetime
    IN  /\ steps' = IF has(h, pc) THEN Append(steps, pc) ELSE steps
        /\ Continue(Modifier(pc, h, datetime, now, localTz))
        /\ UNCHANGED <<h, now, localTz, sinkOk, output, out, start>>

\* lines 171-205
WithTimezone ==
    /\ pc = "with_timezone"
    /\ ModifierStep

\* lines 207-337
FieldSetter ==
    /\ InSeq(pc, FieldSetterKeys)
    /\ ModifierStep

\* lines 341-472
AddDelta ==
    /\ InSeq(pc, AddKeys)
    /\ ModifierStep

\* lines 476-607
SubDelta ==
    /\ InSeq(pc, SubKeys)
    /\ ModifierStep

\* lines 620-683
Finalizers ==
    /\ pc = "finalizers"
    /\ LET Continue(r) ==
               IF r.ok
               THEN /\ output' = r.v
                    /\ pc' = "write"
                    /\ UNCHANGED result
               ELSE /\ Return(r.err)
                    /\ UNCHANGED output
           Select(key) ==
               /\ steps' = Append(steps, key)
               /\ Continue(FinalizerBranch(key, h, datetime))
       IN  Select(FinalizerKey(h))
    /\ UNCHANGED <<h, now, localTz, sinkOk, datetime, out, start>>

\* the error of a sink that refuses the write
WriteError == [tag |-> "Err", desc |-> "io error", cause |-> "", arg |-> <<>>]

\* a variant of Write that writes whatever the sink answers, and twice
Write_twice ==
    /\ pc = "write"
    /\ out' = out \o <<output, output>>
    /\ result' = IF sinkOk THEN ResultOk ELSE WriteError
    /\ pc' = "done"
    /\ UNCHANGED <<h, now, localTz, sinkOk, datetime, output, start, steps>>

\* lines 685-687: out.write(&output)?; Ok(())
Write ==
    /\ pc = "write"
    /\ IF sinkOk
       THEN /\ out' = Append(out, output)
            /\ result' = ResultOk
       ELSE /\ out' = out
            /\ result' = WriteError
    /\ pc' = "done"
    /\ UNCHANGED <<h, now, localTz, sinkOk, datetime, output, start, steps>>

Next ==
    \/ Initializers
    \/ WithTimezone
    \/ FieldSetter
    \/ AddDelta
    \/ SubDelta
    \/ Finalizers
    \/ Write

\* the state when call() is entered with hash hash
Entry(hash, clock, zone, sink) ==
    /\ h = hash
    /\ now = clock
    /\ localTz = zone
    /\ sinkOk = sink
    /\ pc = "initializers"
    /\ datetime = None
    /\ output = <<>>
    /\ out = <<>>
    /\ result = Running
    /\ start = None
    /\ steps = <<>>

(***************************************************************************)
(* The invocations that are checked.  A hash is a function from parameter  *)
(* names to texts; each family below is a set of hashes.                   *)
(***************************************************************************)
Merge(f, g) == [k \in DOMAIN f \cup DOMAIN g |-> IF k \in DOMAIN f THEN f[k] ELSE g[k]]

\* the subsets of S with at most n elements
RECURSIVE SubsetsUpTo(_, _)
SubsetsUpTo(S, n) ==
    IF n = 0 THEN {{}}
    ELSE LET smaller == SubsetsUpTo(S, n - 1)
         IN  smaller \cup {K \cup {x} : K \in smaller, x \in S}

\* every hash over at most n of the keys, each key with one of its texts V(key)
Calls(keys, n, V(_)) ==
    UNION {{f \in [K -> UNION {V(k) : k \in K}] : \A k \in K : f[k] \in V(k)} :
           K \in SubsetsUpTo(keys, n)}

\* how many parameters of one stage an invocation carries at most
MaxInitKeys == 2

MaxFinalKeys == 2

MaxModKeys == 2

InitKeys ==
    {"from_timestamp", "from_timestamp_millis", "from_timestamp_micros",
     "from_timestamp_nanos", "from_rfc2822", "from_rfc3339", "from_str", "input_format"}

FinalKeys ==
    {"output_format", "locale", "to_rfc2822", "to_timestamp", "to_timestamp_millis",
     "to_timestamp_micros", "to_timestamp_nanos", "years_since"}

ModifierKeys == {ModifierOrder[i] : i \in 1..Len(ModifierOrder)}

\* texts of the initializer parameters, well-formed and malformed
InitValues(key) ==
    CASE key = "from_timestamp" ->
          \* 618658211
          \* -1
          \* 618658ergwerg211
          \* 9223372036854775807
          { <<"6", "1", "8", "6", "5", "8", "2", "1", "1">>,
            <<"-", "1">>,
            <<"6", "1", "8", "6", "5", "8", "e", "r", "g", "w", "e", "r", "g", "2", "1", "1">>,
            <<"9", "2", "2", "3", "3", "7", "2", "0", "3", "6", "8", "5", "4", "7", "7", "5", "8", "0", "7">> }
      [] key = "from_timestamp_millis" ->
          \* 618658211123
          \* 618658ergwerg211123
          { <<"6", "1", "8", "6", "5", "8", "2", "1", "1", "1", "2", "3">>,
            <<"6", "1", "8", "6", "5", "8", "e", "r", "g", "w", "e", "r", "g", "2", "1", "1", "1", "2", "3">> }
      [] key = "from_timestamp_micros" ->
          \* 618658211123456
          \* 12345678901234567890
          { <<"6", "1", "8", "6", "5", "8", "2", "1", "1", "1", "2", "3", "4", "5", "6">>,
            <<"1", "2", "3", "4", "5", "6", "7", "8", "9", "0", "1", "2", "3", "4", "5", "6", "7", "8", "9", "0">> }
      [] key = "from_timestamp_nanos" ->
          \* 618658211123456789
          \* 12345678901234567890
          { <<"6", "1", "8", "6", "5", "8", "2", "1", "1", "1", "2", "3", "4", "5", "6", "7", "8", "9">>,
            <<"1", "2", "3", "4", "5", "6", "7", "8", "9", "0", "1", "2", "3", "4", "5", "6", "7", "8", "9", "0">> }
      [] key = "from_rfc2822" ->
          \* Wed, 09 Aug 1989 09:30:11 +0200
          \* Wed, 09 AAA 1989 09:30:11 +0200
          { <<"W", "e", "d", ",", " ", "0", "9", " ", "A", "u", "g", " ", "1", "9", "8", "9", " ", "0", "9", ":", "3", "0", ":", "1", "1", " ", "+", "0", "2", "0", "0">>,
            <<"W", "e", "d", ",", " ", "0", "9", " ", "A", "A", "A", " ", "1", "9", "8", "9", " ", "0", "9", ":", "3", "0", ":", "1", "1", " ", "+", "0", "2", "0", "0">> }
      [] key = "from_rfc3339" ->
          \* 1989-08-09T09:30:11+02:00
          \* 1985_06_16T12_00_00Z
          { <<"1", "9", "8", "9", "-", "0", "8", "-", "0", "9", "T", "0", "9", ":", "3", "0", ":", "1", "1", "+", "0", "2", ":", "0", "0">>,
            <<"1", "9", "8", "5", "_", "0", "6", "_", "1", "6", "T", "1", "2", "_", "0", "0", "_", "0", "0", "Z">> }
      [] key = "from_str" ->
          \* 1985-06-16 12:00:00
          \* 1985-06-16T12:00:00Z
          { <<"1", "9", "8", "5", "-", "0", "6", "-", "1", "6", " ", "1", "2", ":", "0", "0", ":", "0", "0">>,
            <<"1", "9", "8", "5", "-", "0", "6", "-", "1", "6", "T", "1", "2", ":", "0", "0", ":", "0", "0", "Z">> }
      [] key = "input_format" ->
          \* %Y-%m-%d %H:%M:%S
          \* %Q
          { <<"%", "Y", "-", "%", "m", "-", "%", "d", " ", "%", "H", ":", "%", "M", ":", "%", "S">>,
            <<"%", "Q">> }

\* texts of the finalizer parameters
FinalValues(key) ==
    CASE key = "output_format" ->
          \* %Y-%m-%d %H:%M:%S
          \* %d %B %Y
          \* %Q
          { <<"%", "Y", "-", "%", "m", "-", "%", "d", " ", "%", "H", ":", "%", "M", ":", "%", "S">>,
            <<"%", "d", " ", "%", "B", " ", "%", "Y">>,
            <<"%", "Q">> }
      [] key = "locale" ->
          \* nl_NL
          \* GAGA
          { <<"n", "l", "_", "N", "L">>,
            <<"G", "A", "G", "A">> }
      [] key = "to_rfc2822" ->
          \* true
          { <<"t", "r", "u", "e">> }
      [] key = "to_timestamp" ->
          \* true
          \* false
          { <<"t", "r", "u", "e">>,
            <<"f", "a", "l", "s", "e">> }
      [] key = "to_timestamp_millis" ->
          \* true
          { <<"t", "r", "u", "e">> }
      [] key = "to_timestamp_micros" ->
          \* true
          { <<"t", "r", "u", "e">> }
      [] key = "to_timestamp_nanos" ->
          \* true
          { <<"t", "r", "u", "e">> }
      [] key = "years_since" ->
          \* 1985-06-16T12:00:00Z
          \* 1985-06-16 12:00:00
          \* 2020-01-01T00:00:00+00:00
          { <<"1", "9", "8", "5", "-", "0", "6", "-", "1", "6", "T", "1", "2", ":", "0", "0", ":", "0", "0", "Z">>,
            <<"1", "9", "8", "5", "-", "0", "6", "-", "1", "6", " ", "1", "2", ":", "0", "0", ":", "0", "0">>,
            <<"2", "0", "2", "0", "-", "0", "1", "-", "0", "1", "T", "0", "0", ":", "0", "0", ":", "0", "0", "+", "0", "0", ":", "0", "0">> }

\* one accepted text for each modifier
OrderValues(key) ==
    CASE key = "with_timezone" ->
          \* -06:00
          { <<"-", "0", "6", ":", "0", "0">> }
      [] key = "with_ordinal" ->
          \* 100
          { <<"1", "0", "0">> }
      [] key = "with_ordinal0" ->
          \* 200
          { <<"2", "0", "0">> }
      [] key = "with_year" ->
          \* 2000
          { <<"2", "0", "0", "0">> }
      [] key = "with_month" ->
          \* 2
          { <<"2">> }
      [] key = "with_month0" ->
          \* 5
          { <<"5">> }
      [] key = "with_day" ->
          \* 31
          { <<"3", "1">> }
      [] key = "with_day0" ->
          \* 27
          { <<"2", "7">> }
      [] key = "with_hour" ->
          \* 23
          { <<"2", "3">> }
      [] key = "with_minute" ->
          \* 59
          { <<"5", "9">> }
      [] key = "with_second" ->
          \* 58
          { <<"5", "8">> }
      [] key = "with_nanosecond" ->
          \* 5
          { <<"5">> }
      [] key = "add_months" ->
          \* 1
          { <<"1">> }
      [] key = "add_weeks" ->
          \* 2
          { <<"2">> }
      [] key = "add_days" ->
          \* 3
          { <<"3">> }
      [] key = "add_hours" ->
          \* 20
          { <<"2", "0">> }
      [] key = "add_minutes" ->
          \* 45
          { <<"4", "5">> }
      [] key = "add_seconds" ->
          \* 50
          { <<"5", "0">> }
      [] key = "add_milliseconds" ->
          \* 7
          { <<"7">> }
      [] key = "add_microseconds" ->
          \* 8
          { <<"8">> }
      [] key = "add_nanoseconds" ->
          \* 9
          { <<"9">> }
      [] key = "sub_months" ->
          \* 13
          { <<"1", "3">> }
      [] key = "sub_weeks" ->
          \* 1
          { <<"1">> }
      [] key = "sub_days" ->
          \* 40
          { <<"4", "0">> }
      [] key = "sub_hours" ->
          \* 25
          { <<"2", "5">> }
      [] key = "sub_minutes" ->
          \* 31
          { <<"3", "1">> }
      [] key = "sub_seconds" ->
          \* 12
          { <<"1", "2">> }
      [] key = "sub_milliseconds" ->
          \* 1
          { <<"1">> }
      [] key = "sub_microseconds" ->
          \* 2
          { <<"2">> }
      [] key = "sub_nanoseconds" ->
          \* 3
          { <<"3">> }

\* texts of the field setters, in and out of range
SetterValues(key) ==
    CASE key = "with_ordinal" ->
          \* 0
          \* 1
          \* 60
          \* 365
          \* 366
          \* 367
          \* abc
          { <<"0">>,
            <<"1">>,
            <<"6", "0">>,
            <<"3", "6", "5">>,
            <<"3", "6", "6">>,
            <<"3", "6", "7">>,
            <<"a", "b", "c">> }
      [] key = "with_ordinal0" ->
          \* 0
          \* 365
          \* 366
          { <<"0">>,
            <<"3", "6", "5">>,
            <<"3", "6", "6">> }
      [] key = "with_year" ->
          \* 2019
          \* 2020
          \* -5
          \* 262143
          \* 99999999999
          { <<"2", "0", "1", "9">>,
            <<"2", "0", "2", "0">>,
            <<"-", "5">>,
            <<"2", "6", "2", "1", "4", "3">>,
            <<"9", "9", "9", "9", "9", "9", "9", "9", "9", "9", "9">> }
      [] key = "with_month" ->
          \* 0
          \* 1
          \* 2
          \* 12
          \* 13
          { <<"0">>,
            <<"1">>,
            <<"2">>,
            <<"1", "2">>,
            <<"1", "3">> }
      [] key = "with_month0" ->
          \* 0
          \* 1
          \* 11
          \* 12
          { <<"0">>,
            <<"1">>,
            <<"1", "1">>,
            <<"1", "2">> }
      [] key = "with_day" ->
          \* 0
          \* 1
          \* 29
          \* 30
          \* 31
          \* 32
          { <<"0">>,
            <<"1">>,
            <<"2", "9">>,
            <<"3", "0">>,
            <<"3", "1">>,
            <<"3", "2">> }
      [] key = "with_day0" ->
          \* 0
          \* 28
          \* 30
          \* 31
          { <<"0">>,
            <<"2", "8">>,
            <<"3", "0">>,
            <<"3", "1">> }
      [] key = "with_hour" ->
          \* 0
          \* 23
          \* 24
          { <<"0">>,
            <<"2", "3">>,
            <<"2", "4">> }
      [] key = "with_minute" ->
          \* 0
          \* 59
          \* 60
          { <<"0">>,
            <<"5", "9">>,
            <<"6", "0">> }
      [] key = "with_second" ->
          \* 0
          \* 59
          \* 60
          { <<"0">>,
            <<"5", "9">>,
            <<"6", "0">> }
      [] key = "with_nanosecond" ->
          \* 0
          \* 999999999
          \* 1000000000
          \* 1500000000
          \* 2000000000
          \* -1
          { <<"0">>,
            <<"9", "9", "9", "9", "9", "9", "9", "9", "9">>,
            <<"1", "0", "0", "0", "0", "0", "0", "0", "0", "0">>,
            <<"1", "5", "0", "0", "0", "0", "0", "0", "0", "0">>,
            <<"2", "0", "0", "0", "0", "0", "0", "0", "0", "0">>,
            <<"-", "1">> }

\* texts of with_timezone
TimezoneValues ==
    \* "local"
    \* "LOCAL"
    \* "-06:00"
    \* "+0200"
    \* "-01:00"
    \* "-2500"
    \* "+11:11"
    \* "+10:00garbage"
    \* "Plovdiv"
    \* "America/Edmonton"
    \* "Etc/GMT+10"
    \* "Asia/Tokyo"
    \* "UTC"
    \* ""
    { <<"l", "o", "c", "a", "l">>,
      <<"L", "O", "C", "A", "L">>,
      <<"-", "0", "6", ":", "0", "0">>,
      <<"+", "0", "2", "0", "0">>,
      <<"-", "0", "1", ":", "0", "0">>,
      <<"-", "2", "5", "0", "0">>,
      <<"+", "1", "1", ":", "1", "1">>,
      <<"+", "1", "0", ":", "0", "0", "g", "a", "r", "b", "a", "g", "e">>,
      <<"P", "l", "o", "v", "d", "i", "v">>,
      <<"A", "m", "e", "r", "i", "c", "a", "/", "E", "d", "m", "o", "n", "t", "o", "n">>,
      <<"E", "t", "c", "/", "G", "M", "T", "+", "1", "0">>,
      <<"A", "s", "i", "a", "/", "T", "o", "k", "y", "o">>,
      <<"U", "T", "C">>,
      <<>> }

\* 1989-08-09T09:30:11Z
StartSummer == (("from_timestamp" :> <<"6", "1", "8", "6", "5", "8", "2", "1", "1">>))

\* 1653-02-10, before the first instant a 64-bit count of nanoseconds reaches
StartOld == (("from_timestamp" :> <<"-", "9", "9", "9", "9", "9", "9", "9", "9", "9", "9">>))

\* initializers that succeed: instants in summer and winter, on a leap day, at
\* the end of a month, before 1677, and texts that carry an offset
StartCalls ==
    \* from_timestamp="618658211"
    { (("from_timestamp" :> <<"6", "1", "8", "6", "5", "8", "2", "1", "1">>)),
    \* from_timestamp="631152000"
      (("from_timestamp" :> <<"6", "3", "1", "1", "5", "2", "0", "0", "0">>)),
    \* from_timestamp="-9999999999"
      (("from_timestamp" :> <<"-", "9", "9", "9", "9", "9", "9", "9", "9", "9", "9">>)),
    \* from_timestamp_millis="618658211123"
      (("from_timestamp_millis" :> <<"6", "1", "8", "6", "5", "8", "2", "1", "1", "1", "2", "3">>)),
    \* from_rfc3339="1989-08-09T09:30:11+02:00"
      (("from_rfc3339" :> <<"1", "9", "8", "9", "-", "0", "8", "-", "0", "9", "T", "0", "9", ":", "3", "0", ":", "1", "1", "+", "0", "2", ":", "0", "0">>)),
    \* from_rfc3339="2020-01-01T00:30:00Z"
      (("from_rfc3339" :> <<"2", "0", "2", "0", "-", "0", "1", "-", "0", "1", "T", "0", "0", ":", "3", "0", ":", "0", "0", "Z">>)),
    \* from_rfc3339="2020-02-29T23:30:00-01:00"
      (("from_rfc3339" :> <<"2", "0", "2", "0", "-", "0", "2", "-", "2", "9", "T", "2", "3", ":", "3", "0", ":", "0", "0", "-", "0", "1", ":", "0", "0">>)),
    \* from_rfc3339="2019-01-31T12:00:00.5Z"
      (("from_rfc3339" :> <<"2", "0", "1", "9", "-", "0", "1", "-", "3", "1", "T", "1", "2", ":", "0", "0", ":", "0", "0", ".", "5", "Z">>)),
    \* from_rfc2822="Wed, 09 Aug 1989 09:30:11 +0200"
      (("from_rfc2822" :> <<"W", "e", "d", ",", " ", "0", "9", " ", "A", "u", "g", " ", "1", "9", "8", "9", " ", "0", "9", ":", "3", "0", ":", "1", "1", " ", "+", "0", "2", "0", "0">>)) }

\* one call of each finalizer
OutputCalls ==
    \* (no parameter)
    { <<>>,
    \* to_rfc2822="true"
      (("to_rfc2822" :> <<"t", "r", "u", "e">>)),
    \* to_timestamp="true"
      (("to_timestamp" :> <<"t", "r", "u", "e">>)),
    \* to_timestamp_millis="true"
      (("to_timestamp_millis" :> <<"t", "r", "u", "e">>)),
    \* to_timestamp_micros="true"
      (("to_timestamp_micros" :> <<"t", "r", "u", "e">>)),
    \* to_timestamp_nanos="true"
      (("to_timestamp_nanos" :> <<"t", "r", "u", "e">>)),
    \* output_format="%Y-%m-%d %H:%M:%S"
      (("output_format" :> <<"%", "Y", "-", "%", "m", "-", "%", "d", " ", "%", "H", ":", "%", "M", ":", "%", "S">>)),
    \* years_since="2020-01-01T00:00:00Z"
      (("years_since" :> <<"2", "0", "2", "0", "-", "0", "1", "-", "0", "1", "T", "0", "0", ":", "0", "0", ":", "0", "0", "Z">>)),
    \* years_since="1985-06-16T12:00:00Z"
      (("years_since" :> <<"1", "9", "8", "5", "-", "0", "6", "-", "1", "6", "T", "1", "2", ":", "0", "0", ":", "0", "0", "Z">>)),
    \* years_since="1989-08-09T10:00:00+02:00"
      (("years_since" :> <<"1", "9", "8", "9", "-", "0", "8", "-", "0", "9", "T", "1", "0", ":", "0", "0", ":", "0", "0", "+", "0", "2", ":", "0", "0">>)),
    \* years_since="1985-06-16 12:00:00"
      (("years_since" :> <<"1", "9", "8", "5", "-", "0", "6", "-", "1", "6", " ", "1", "2", ":", "0", "0", ":", "0", "0">>)) }

\* per stage: the parameter absent, accepted, and rejected
StageInit ==
    \* (no parameter)
    { <<>>,
    \* from_timestamp="618658211"
      (("from_timestamp" :> <<"6", "1", "8", "6", "5", "8", "2", "1", "1">>)),
    \* from_timestamp="618658ergwerg211"
      (("from_timestamp" :> <<"6", "1", "8", "6", "5", "8", "e", "r", "g", "w", "e", "r", "g", "2", "1", "1">>)),
    \* from_str="1985-06-16 12:00:00"
      (("from_str" :> <<"1", "9", "8", "5", "-", "0", "6", "-", "1", "6", " ", "1", "2", ":", "0", "0", ":", "0", "0">>)) }

StageTimezone ==
    \* (no parameter)
    { <<>>,
    \* with_timezone="-06:00"
      (("with_timezone" :> <<"-", "0", "6", ":", "0", "0">>)),
    \* with_timezone="Plovdiv"
      (("with_timezone" :> <<"P", "l", "o", "v", "d", "i", "v">>)) }

StageSetter ==
    \* (no parameter)
    { <<>>,
    \* with_day="31"
      (("with_day" :> <<"3", "1">>)),
    \* with_month="13"
      (("with_month" :> <<"1", "3">>)),
    \* with_hour="x"
      (("with_hour" :> <<"x">>)) }

StageAdd ==
    \* (no parameter)
    { <<>>,
    \* add_months="1"
      (("add_months" :> <<"1">>)),
    \* add_days="-1"
      (("add_days" :> <<"-", "1">>)),
    \* add_weeks="9223372036854775807"
      (("add_weeks" :> <<"9", "2", "2", "3", "3", "7", "2", "0", "3", "6", "8", "5", "4", "7", "7", "5", "8", "0", "7">>)) }

StageSub ==
    \* (no parameter)
    { <<>>,
    \* sub_nanoseconds="abc"
      (("sub_nanoseconds" :> <<"a", "b", "c">>)) }

StageFinal ==
    \* (no parameter)
    { <<>>,
    \* to_timestamp_nanos="true"
      (("to_timestamp_nanos" :> <<"t", "r", "u", "e">>)),
    \* years_since="1985-06-16 12:00:00"
      (("years_since" :> <<"1", "9", "8", "5", "-", "0", "6", "-", "1", "6", " ", "1", "2", ":", "0", "0", ":", "0", "0">>)),
    \* output_format="%d %B %Y" locale="GAGA"
      (("output_format" :> <<"%", "d", " ", "%", "B", " ", "%", "Y">>) @@ ("locale" :> <<"G", "A", "G", "A">>)) }

\* Utc::now() and the zone of chrono::Local of the checked invocations
NowText == <<"2", "0", "2", "4", "-", "0", "1", "-", "1", "5", "T", "1", "2", ":", "0", "0", ":", "0", "0", "Z">>

Now0 == to_utc(parse_from_rfc3339(NowText).v)

\* initializer parameters only
InitializerCalls == Calls(InitKeys, MaxInitKeys, InitValues)

\* a good initializer and finalizer parameters only
FinalizerCalls ==
    {Merge(i, f) : i \in {StartSummer, StartOld},
                   f \in Calls(FinalKeys, MaxFinalKeys, FinalValues)}

\* a good initializer and accepted modifiers
ModifierOrderCalls ==
    {Merge(StartSummer, m) : m \in Calls(ModifierKeys, MaxModKeys, OrderValues)}

\* one parameter or none for each stage
PipelineCalls ==
    {Merge(i, Merge(z, Merge(s, Merge(a, Merge(b, f))))) :
        i \in StageInit, z \in StageTimezone, s \in StageSetter,
        a \in StageAdd, b \in StageSub, f \in StageFinal}

\* an initializer, with_timezone or not, and one finalizer
TimezoneCalls ==
    {Merge(i, Merge(z, f)) :
        i \in StartCalls,
        z \in {<<>>} \cup {("with_timezone" :> t) : t \in TimezoneValues},
        f \in OutputCalls}

\* an initializer, with_timezone or not, and one field setter
FieldSetterCalls ==
    {Merge(i, Merge(z, s)) :
        i \in StartCalls,
        z \in {<<>>, ("with_timezone" :> <<"-", "0", "1", ":", "0", "0">>)},
        s \in Calls({FieldSetterKeys[k] : k \in 1..Len(FieldSetterKeys)}, 1, SetterValues)}

\* texts of epoch counts: small ones, the ends of the range of DateTime in
\* seconds, milliseconds and microseconds, the ends of i64, and texts that are
\* no i64
CountValues ==
    { <<"0">>,
      <<"1">>,
      <<"-", "1">>,
      <<"+", "5">>,
      <<"0", "0", "7">>,
      <<"-", "0">>,
      <<"6", "1", "8", "6", "5", "8", "2", "1", "1">>,
      <<"-", "9", "9", "9", "9", "9", "9", "9", "9", "9", "9">>,
      <<"6", "1", "8", "6", "5", "8", "2", "1", "1", "1", "2", "3">>,
      <<"-", "1", "5", "0", "0">>,
      <<"-", "1", "0", "0", "1">>,
      <<"-", "8", "6", "4", "0", "0">>,
      <<"-", "8", "6", "4", "0", "1">>,
      <<"8", "2", "1", "0", "2", "6", "6", "8", "7", "6", "7", "9", "9">>,
      <<"8", "2", "1", "0", "2", "6", "6", "8", "7", "6", "8", "0", "0">>,
      <<"-", "8", "3", "3", "4", "6", "0", "1", "2", "2", "8", "8", "0", "0">>,
      <<"-", "8", "3", "3", "4", "6", "0", "1", "2", "2", "8", "8", "0", "1">>,
      <<"8", "2", "1", "0", "2", "6", "6", "8", "7", "6", "7", "9", "9", "9", "9", "9">>,
      <<"8", "2", "1", "0", "2", "6", "6", "8", "7", "6", "8", "0", "0", "0", "0", "0">>,
      <<"-", "8", "3", "3", "4", "6", "0", "1", "2", "2", "8", "8", "0", "0", "0", "0", "0">>,
      <<"-", "8", "3", "3", "4", "6", "0", "1", "2", "2", "8", "8", "0", "0", "0", "0", "1">>,
      <<"8", "2", "1", "0", "2", "6", "6", "8", "7", "6", "7", "9", "9", "9", "9", "9", "9", "9", "9">>,
      <<"8", "2", "1", "0", "2", "6", "6", "8", "7", "6", "8", "0", "0", "0", "0", "0", "0", "0", "0">>,
      <<"-", "8", "3", "3", "4", "6", "0", "1", "2", "2", "8", "8", "0", "0", "0", "0", "0", "0", "0", "0">>,
      <<"-", "8", "3", "3", "4", "6", "0", "1", "2", "2", "8", "8", "0", "0", "0", "0", "0", "0", "0", "1">>,
      <<"9", "2", "2", "3", "3", "7", "2", "0", "3", "6", "8", "5", "4", "7", "7", "5", "8", "0", "7">>,
      <<"-", "9", "2", "2", "3", "3", "7", "2", "0", "3", "6", "8", "5", "4", "7", "7", "5", "8", "0", "8">>,
      <<"9", "2", "2", "3", "3", "7", "2", "0", "3", "6", "8", "5", "4", "7", "7", "5", "8", "0", "8">>,
      <<"1", "2", "3", "4", "5", "6", "7", "8", "9", "0", "1", "2", "3", "4", "5", "6", "7", "8", "9", "0">>,
      <<"6", "1", "8", "6", "5", "8", "2", "1", "1", "1", "2", "3", "4", "5", "6", "7", "8", "9">>,
      <<"a", "b", "c">>,
      <<>>,
      <<"1", ".", "5">>,
      <<" ", "1">>,
      <<"-">> }

\* one from_timestamp* parameter and one to_timestamp* flag or none
EpochCalls ==
    {Merge((k :> t), f) :
        k \in {"from_timestamp", "from_timestamp_millis", "from_timestamp_micros",
               "from_timestamp_nanos"},
        t \in CountValues,
        f \in {<<>>} \cup {(o :> <<"t", "r", "u", "e">>) :
                              o \in {"to_timestamp", "to_timestamp_millis",
                                     "to_timestamp_micros", "to_timestamp_nanos"}}}

\* instants on both sides of the first and the last instant whose nanosecond
\* count fits an i64 (1677-09-21T00:12:43.145224192Z, 2262-04-11T23:47:16.854775807Z)
NanosStarts ==
    { ("from_timestamp" :> <<"0">>),
      ("from_timestamp" :> <<"9", "2", "2", "3", "3", "7", "2", "0", "3", "6">>),
      ("from_timestamp" :> <<"9", "2", "2", "3", "3", "7", "2", "0", "3", "7">>),
      ("from_timestamp" :> <<"-", "9", "2", "2", "3", "3", "7", "2", "0", "3", "7">>),
      ("from_timestamp" :> <<"-", "9", "2", "2", "3", "3", "7", "2", "0", "3", "8">>),
      ("from_timestamp" :> <<"6", "1", "8", "6", "5", "8", "2", "1", "1">>),
      ("from_timestamp" :> <<"-", "9", "9", "9", "9", "9", "9", "9", "9", "9", "9">>),
      ("from_timestamp" :> <<"2", "5", "3", "4", "0", "2", "3", "0", "0", "8", "0", "0">>),
      ("from_rfc3339" :> <<"2", "2", "6", "2", "-", "0", "4", "-", "1", "1", "T", "2", "3", ":", "4", "7", ":", "1", "6", ".", "8", "5", "4", "7", "7", "5", "8", "0", "7", "Z">>),
      ("from_rfc3339" :> <<"2", "2", "6", "2", "-", "0", "4", "-", "1", "1", "T", "2", "3", ":", "4", "7", ":", "1", "6", ".", "8", "5", "4", "7", "7", "5", "8", "0", "8", "Z">>),
      ("from_rfc3339" :> <<"1", "6", "7", "7", "-", "0", "9", "-", "2", "1", "T", "0", "0", ":", "1", "2", ":", "4", "3", ".", "1", "4", "5", "2", "2", "4", "1", "9", "2", "Z">>),
      ("from_rfc3339" :> <<"1", "6", "7", "7", "-", "0", "9", "-", "2", "1", "T", "0", "0", ":", "1", "2", ":", "4", "3", ".", "1", "4", "5", "2", "2", "4", "1", "9", "1", "Z">>),
      ("from_timestamp_nanos" :> <<"9", "2", "2", "3", "3", "7", "2", "0", "3", "6", "8", "5", "4", "7", "7", "5", "8", "0", "7">>),
      ("from_timestamp_nanos" :> <<"-", "9", "2", "2", "3", "3", "7", "2", "0", "3", "6", "8", "5", "4", "7", "7", "5", "8", "0", "8">>) }

\* modifiers that carry an instant across those ends
NanosModifiers ==
    { <<>>,
      ("add_nanoseconds" :> <<"8", "5", "4", "7", "7", "5", "8", "0", "7">>),
      ("add_nanoseconds" :> <<"8", "5", "4", "7", "7", "5", "8", "0", "8">>),
      ("sub_nanoseconds" :> <<"8", "5", "4", "7", "7", "5", "8", "0", "8">>),
      ("add_months" :> <<"3", "6", "0", "0">>),
      ("sub_months" :> <<"3", "6", "0", "0">>),
      ("with_year" :> <<"2", "3", "0", "0">>),
      ("with_timezone" :> <<"+", "0", "2", ":", "0", "0">>) }

\* an instant, one modifier or none, and to_timestamp_nanos
NanosCalls ==
    {Merge(i, Merge(m, ("to_timestamp_nanos" :> <<"t", "r", "u", "e">>))) :
        i \in NanosStarts, m \in NanosModifiers}

\* instants with and without a fraction of a second, in a leap second, and on
\* both sides of the years 0000 and 9999
RoundTripStarts ==
    { ("from_timestamp" :> <<"6", "1", "8", "6", "5", "8", "2", "1", "1">>),
      ("from_timestamp" :> <<"0">>),
      ("from_timestamp" :> <<"-", "1">>),
      ("from_timestamp" :> <<"2", "5", "3", "4", "0", "2", "3", "0", "0", "7", "9", "9">>),
      ("from_timestamp" :> <<"2", "5", "3", "4", "0", "2", "3", "0", "0", "8", "0", "0">>),
      ("from_timestamp" :> <<"-", "6", "2", "1", "6", "7", "2", "1", "9", "2", "0", "0">>),
      ("from_timestamp" :> <<"-", "6", "2", "1", "6", "7", "2", "1", "9", "2", "0", "1">>),
      ("from_timestamp_millis" :> <<"6", "1", "8", "6", "5", "8", "2", "1", "1", "1", "2", "3">>),
      ("from_timestamp_micros" :> <<"6", "1", "8", "6", "5", "8", "2", "1", "1", "1", "2", "3", "4", "5", "6">>),
      ("from_timestamp_nanos" :> <<"6", "1", "8", "6", "5", "8", "2", "1", "1", "1", "2", "3", "4", "5", "6", "7", "8", "9">>),
      ("from_timestamp_nanos" :> <<"-", "1">>),
      ("from_rfc3339" :> <<"2", "0", "1", "6", "-", "1", "2", "-", "3", "1", "T", "2", "3", ":", "5", "9", ":", "6", "0", "Z">>),
      ("from_rfc3339" :> <<"1", "9", "8", "9", "-", "0", "8", "-", "0", "9", "T", "0", "9", ":", "3", "0", ":", "1", "1", ".", "5", "+", "0", "2", ":", "0", "0">>),
      ("from_rfc2822" :> <<"W", "e", "d", ",", " ", "0", "9", " ", "A", "u", "g", " ", "1", "9", "8", "9", " ", "0", "9", ":", "3", "0", ":", "1", "1", " ", "+", "0", "2", "0", "0">>) }

\* modifiers that change the display offset or the year
RoundTripModifiers ==
    { <<>>,
      ("with_timezone" :> <<"+", "0", "2", ":", "0", "0">>),
      ("with_timezone" :> <<"-", "0", "1", ":", "0", "0">>),
      ("with_timezone" :> <<"A", "m", "e", "r", "i", "c", "a", "/", "E", "d", "m", "o", "n", "t", "o", "n">>),
      ("with_timezone" :> <<"A", "s", "i", "a", "/", "T", "o", "k", "y", "o">>),
      ("with_timezone" :> <<"l", "o", "c", "a", "l">>),
      ("add_months" :> <<"9", "6", "0", "0", "0">>),
      ("with_year" :> <<"1", "0", "0", "0", "0">>),
      ("with_year" :> <<"-", "1">>),
      ("add_nanoseconds" :> <<"1">>) }

\* an instant, one modifier or none, and the default output
RoundTripCalls == {Merge(i, m) : i \in RoundTripStarts, m \in RoundTripModifiers}

\* instants with and without a fraction of a second, at the end of a month
\* and in a leap second
InverseStarts ==
    { ("from_timestamp" :> <<"6", "1", "8", "6", "5", "8", "2", "1", "1">>),
      ("from_timestamp" :> <<"0">>),
      ("from_timestamp" :> <<"-", "1">>),
      ("from_rfc3339" :> <<"2", "0", "2", "0", "-", "0", "2", "-", "2", "9", "T", "2", "3", ":", "3", "0", ":", "0", "0", "-", "0", "1", ":", "0", "0">>),
      ("from_rfc3339" :> <<"2", "0", "1", "9", "-", "0", "1", "-", "3", "1", "T", "1", "2", ":", "0", "0", ":", "0", "0", ".", "5", "Z">>),
      ("from_rfc3339" :> <<"2", "0", "1", "6", "-", "1", "2", "-", "3", "1", "T", "2", "3", ":", "5", "9", ":", "6", "0", "Z">>),
      ("from_timestamp_nanos" :> <<"6", "1", "8", "6", "5", "8", "2", "1", "1", "1", "2", "3", "4", "5", "6", "7", "8", "9">>) }

\* one addition of a fixed-length unit
InverseDeltas ==
    { ("add_days" :> <<"2">>),
      ("add_days" :> <<"0">>),
      ("add_days" :> <<"3", "6", "6">>),
      ("add_weeks" :> <<"1">>),
      ("add_weeks" :> <<"-", "3">>),
      ("add_hours" :> <<"2", "5">>),
      ("add_hours" :> <<"-", "5">>),
      ("add_minutes" :> <<"9", "0">>),
      ("add_seconds" :> <<"1">>),
      ("add_seconds" :> <<"-", "8", "6", "4", "0", "0">>),
      ("add_milliseconds" :> <<"1", "5", "0", "0">>),
      ("add_milliseconds" :> <<"-", "1">>),
      ("add_microseconds" :> <<"1">>),
      ("add_nanoseconds" :> <<"1">>),
      ("add_nanoseconds" :> <<"-", "9", "9", "9", "9", "9", "9", "9", "9", "9">>) }

\* an instant, one addition, shown in UTC or in America/Edmonton, and the
\* default output
InverseCalls ==
    {Merge(i, Merge(z, d)) :
        i \in InverseStarts,
        z \in {<<>>, ("with_timezone" :> TzEdmonton)},
        d \in InverseDeltas}

\* instants on the 9th, the 15th, the 29th and the 31st of a month
MonthStarts ==
    { ("from_timestamp" :> <<"6", "1", "8", "6", "5", "8", "2", "1", "1">>),
      ("from_rfc3339" :> <<"2", "0", "2", "0", "-", "0", "1", "-", "3", "1", "T", "1", "2", ":", "0", "0", ":", "0", "0", "Z">>),
      ("from_rfc3339" :> <<"2", "0", "2", "0", "-", "0", "2", "-", "2", "9", "T", "2", "3", ":", "3", "0", ":", "0", "0", "-", "0", "1", ":", "0", "0">>),
      ("from_rfc3339" :> <<"2", "0", "1", "9", "-", "0", "3", "-", "3", "1", "T", "0", "0", ":", "0", "0", ":", "0", "0", "Z">>),
      ("from_rfc3339" :> <<"2", "0", "1", "9", "-", "1", "2", "-", "1", "5", "T", "0", "0", ":", "0", "0", ":", "0", "0", ".", "5", "Z">>) }

\* with_month or not: months with and without the day of the instant, and
\* values that are no month
MonthValues ==
    { <<>>,
      ("with_month" :> <<"1">>),
      ("with_month" :> <<"2">>),
      ("with_month" :> <<"4">>),
      ("with_month" :> <<"6">>),
      ("with_month" :> <<"1", "2">>),
      ("with_month" :> <<"1", "3">>),
      ("with_month" :> <<"0">>),
      ("with_month" :> <<"a", "b", "c">>),
      ("with_month" :> <<"-", "1">>) }

\* with_month0 or not
Month0Values ==
    { <<>>,
      ("with_month0" :> <<"0">>),
      ("with_month0" :> <<"1">>),
      ("with_month0" :> <<"1", "1">>) }

\* an instant shown in UTC or at -01:00, with_month or not, with_month0 or not
MonthCalls ==
    {Merge(i, Merge(z, Merge(m, m0))) :
        i \in MonthStarts,
        z \in {<<>>, ("with_timezone" :> <<"-", "0", "1", ":", "0", "0">>)},
        m \in MonthValues,
        m0 \in Month0Values}

\* texts of a numeric parameter: texts that are no integer, integers that fit
\* only some of the types i32, u32, i64 and u64, and integers that fit them all
IntegerTexts ==
    { <<>>,
      <<"a", "b", "c">>,
      <<"1", ".", "5">>,
      <<" ", "1">>,
      <<"-">>,
      <<"0", "x", "1", "0">>,
      <<"9", "9", "9", "9", "9", "9", "9", "9", "9", "9", "9", "9", "9", "9", "9", "9", "9", "9", "9", "9", "9", "9", "9">>,
      <<"-", "1">>,
      <<"4", "2", "9", "4", "9", "6", "7", "2", "9", "6">>,
      <<"2", "1", "4", "7", "4", "8", "3", "6", "4", "8">>,
      <<"1">>,
      <<"+", "2">>,
      <<"1", "2">> }

\* the parameters whose text is parsed as an integer
NumericInitializers ==
    {"from_timestamp", "from_timestamp_millis", "from_timestamp_micros", "from_timestamp_nanos"}

NumericModifiers ==
    {ModifierOrder[i] : i \in 2..Len(ModifierOrder)}

\* one numeric parameter: an initializer alone, or a modifier of the instant
\* 1989-08-09T09:30:11Z
IntegerCalls ==
    {(k :> t) : k \in NumericInitializers, t \in IntegerTexts}
        \cup {Merge(StartSummer, (k :> t)) : k \in NumericModifiers, t \in IntegerTexts}

\* further readings of Utc::now(): a summer instant with a fraction of a second,
\* and the last half second of 1999
NowSummerText == <<"2", "0", "2", "4", "-", "0", "7", "-", "0", "1", "T", "0", "8", ":", "1", "5", ":", "3", "0", ".", "1", "2", "3", "4", "5", "6", "7", "8", "9", "Z">>

NowSummer == to_utc(parse_from_rfc3339(NowSummerText).v)

NowOldText == <<"1", "9", "9", "9", "-", "1", "2", "-", "3", "1", "T", "2", "3", ":", "5", "9", ":", "5", "9", ".", "5", "Z">>

NowOld == to_utc(parse_from_rfc3339(NowOldText).v)

Clocks == {Now0, NowSummer, NowOld}

LocalZones == {TzEdmonton, TzTokyo}

\* calls with and without an initializer, with and without with_timezone=local,
\* with parameters under their names and under names in another letter case
EnvironmentCalls ==
    { <<>>,
      ("to_timestamp" :> <<"t", "r", "u", "e">>),
      ("to_rfc2822" :> <<"t", "r", "u", "e">>),
      ("with_timezone" :> <<"l", "o", "c", "a", "l">>),
      ("add_days" :> <<"1">>),
      ("TO_TIMESTAMP" :> <<"t", "r", "u", "e">>),
      ("FROM_TIMESTAMP" :> <<"6", "1", "8", "6", "5", "8", "2", "1", "1">>),
      ("From_Rfc3339" :> <<"1", "9", "8", "9", "-", "0", "8", "-", "0", "9", "T", "0", "9", ":", "3", "0", ":", "1", "1", "+", "0", "2", ":", "0", "0">>),
      ("from_timestamp" :> <<"6", "1", "8", "6", "5", "8", "2", "1", "1">>),
      (("from_timestamp" :> <<"6", "1", "8", "6", "5", "8", "2", "1", "1">>) @@ ("to_timestamp" :> <<"t", "r", "u", "e">>)),
      (("from_timestamp" :> <<"6", "1", "8", "6", "5", "8", "2", "1", "1">>) @@ ("TO_TIMESTAMP" :> <<"t", "r", "u", "e">>)),
      (("from_timestamp" :> <<"6", "1", "8", "6", "5", "8", "2", "1", "1">>) @@ ("To_Rfc2822" :> <<"t", "r", "u", "e">>)),
      (("from_timestamp" :> <<"6", "1", "8", "6", "5", "8", "2", "1", "1">>) @@ ("to_rfc2822" :> <<"t", "r", "u", "e">>)),
      (("from_timestamp" :> <<"6", "1", "8", "6", "5", "8", "2", "1", "1">>) @@ ("FROM_RFC3339" :> <<"2", "0", "2", "0", "-", "0", "1", "-", "3", "1", "T", "1", "2", ":", "0", "0", ":", "0", "0", "Z">>)),
      (("from_timestamp" :> <<"6", "1", "8", "6", "5", "8", "2", "1", "1">>) @@ ("with_timezone" :> <<"A", "m", "e", "r", "i", "c", "a", "/", "E", "d", "m", "o", "n", "t", "o", "n">>)),
      (("from_timestamp" :> <<"6", "1", "8", "6", "5", "8", "2", "1", "1">>) @@ ("with_timezone" :> <<"l", "o", "c", "a", "l">>)),
      (("from_timestamp" :> <<"6", "1", "8", "6", "5", "8", "2", "1", "1">>) @@ ("with_timezone" :> <<"L", "O", "C", "A", "L">>)),
      (("from_timestamp" :> <<"6", "1", "8", "6", "5", "8", "2", "1", "1">>) @@ ("With_Timezone" :> <<"A", "s", "i", "a", "/", "T", "o", "k", "y", "o">>)),
      (("from_timestamp" :> <<"6", "1", "8", "6", "5", "8", "2", "1", "1">>) @@ ("with_timezone" :> <<"+", "0", "2", ":", "0", "0">>)),
      (("from_timestamp" :> <<"6", "1", "8", "6", "5", "8", "2", "1", "1">>) @@ ("with_hour" :> <<"5">>)),
      (("from_timestamp" :> <<"6", "1", "8", "6", "5", "8", "2", "1", "1">>) @@ ("WITH_HOUR" :> <<"5">>)),
      (("from_timestamp" :> <<"6", "1", "8", "6", "5", "8", "2", "1", "1">>) @@ ("with_hour" :> <<"2", "4">>)),
      (("from_timestamp" :> <<"6", "1", "8", "6", "5", "8", "2", "1", "1">>) @@ ("WITH_HOUR" :> <<"2", "4">>)),
      (("from_timestamp" :> <<"6", "1", "8", "6", "5", "8", "2", "1", "1">>) @@ ("add_days" :> <<"1">>)),
      (("from_timestamp" :> <<"6", "1", "8", "6", "5", "8", "2", "1", "1">>) @@ ("ADD_DAYS" :> <<"1">>)),
      (("from_timestamp" :> <<"6", "1", "8", "6", "5", "8", "2", "1", "1">>) @@ ("Sub_Months" :> <<"x">>)),
      (("from_timestamp" :> <<"6", "1", "8", "6", "5", "8", "2", "1", "1">>) @@ ("sub_months" :> <<"x">>)),
      (("from_timestamp" :> <<"6", "1", "8", "6", "5", "8", "2", "1", "1">>) @@ ("years_since" :> <<"1", "9", "8", "0", "-", "0", "1", "-", "0", "1", "T", "0", "0", ":", "0", "0", ":", "0", "0", "Z">>)),
      (("from_timestamp" :> <<"6", "1", "8", "6", "5", "8", "2", "1", "1">>) @@ ("YEARS_SINCE" :> <<"1", "9", "8", "0", "-", "0", "1", "-", "0", "1", "T", "0", "0", ":", "0", "0", ":", "0", "0", "Z">>)),
      (("from_timestamp" :> <<"6", "1", "8", "6", "5", "8", "2", "1", "1">>) @@ ("with_timezone" :> <<"A", "m", "e", "r", "i", "c", "a", "/", "E", "d", "m", "o", "n", "t", "o", "n">>) @@ ("with_hour" :> <<"5">>) @@ ("add_days" :> <<"1">>) @@ ("to_rfc2822" :> <<"t", "r", "u", "e">>)),
      ("from_rfc3339" :> <<"1", "9", "8", "9", "-", "0", "8", "-", "0", "9", "T", "0", "9", ":", "3", "0", ":", "1", "1", "+", "0", "2", ":", "0", "0">>),
      ("from_rfc3339" :> <<"y", "e", "s", "t", "e", "r", "d", "a", "y">>),
      (("from_rfc3339" :> <<"1", "9", "8", "9", "-", "0", "8", "-", "0", "9", "T", "0", "9", ":", "3", "0", ":", "1", "1", "+", "0", "2", ":", "0", "0">>) @@ ("from_timestamp" :> <<"0">>)) }

\* the instant 1989-08-09T09:30:11Z, the last second and the first second
\* DateTime holds, and an instant with half a second
DeltaStarts ==
    { ("from_timestamp" :> <<"6", "1", "8", "6", "5", "8", "2", "1", "1">>),
      ("from_timestamp" :> <<"8", "2", "1", "0", "2", "6", "6", "8", "7", "6", "7", "9", "9">>),
      ("from_timestamp" :> <<"-", "8", "3", "3", "4", "6", "0", "1", "2", "2", "8", "8", "0", "0">>),
      ("from_rfc3339" :> <<"2", "0", "1", "9", "-", "0", "1", "-", "3", "1", "T", "1", "2", ":", "0", "0", ":", "0", "0", ".", "5", "Z">>) }

\* one add_* or sub_* parameter: small counts, the largest count each unit turns
\* into a TimeDelta and the count after it, the ends of i64, u32 and u64, and
\* counts that carry an instant from one end of the range towards the other
DeltaValues ==
    { ("add_months" :> <<"0">>),
      ("sub_months" :> <<"0">>),
      ("add_months" :> <<"1">>),
      ("sub_months" :> <<"1">>),
      ("add_months" :> <<"-", "1">>),
      ("sub_months" :> <<"-", "1">>),
      ("add_months" :> <<"3", "1", "4", "5", "7", "1", "6">>),
      ("sub_months" :> <<"3", "1", "4", "5", "7", "1", "6">>),
      ("add_months" :> <<"3", "1", "4", "5", "7", "1", "7">>),
      ("sub_months" :> <<"3", "1", "4", "5", "7", "1", "7">>),
      ("add_months" :> <<"4", "2", "9", "4", "9", "6", "7", "2", "9", "5">>),
      ("sub_months" :> <<"4", "2", "9", "4", "9", "6", "7", "2", "9", "5">>),
      ("add_weeks" :> <<"0">>),
      ("sub_weeks" :> <<"0">>),
      ("add_weeks" :> <<"1">>),
      ("sub_weeks" :> <<"1">>),
      ("add_weeks" :> <<"-", "1">>),
      ("sub_weeks" :> <<"-", "1">>),
      ("add_weeks" :> <<"1", "5", "2", "5", "0", "2", "8", "4", "4", "5", "2">>),
      ("sub_weeks" :> <<"1", "5", "2", "5", "0", "2", "8", "4", "4", "5", "2">>),
      ("add_weeks" :> <<"1", "5", "2", "5", "0", "2", "8", "4", "4", "5", "3">>),
      ("sub_weeks" :> <<"1", "5", "2", "5", "0", "2", "8", "4", "4", "5", "3">>),
      ("add_weeks" :> <<"9", "2", "2", "3", "3", "7", "2", "0", "3", "6", "8", "5", "4", "7", "7", "5", "8", "0", "7">>),
      ("sub_weeks" :> <<"9", "2", "2", "3", "3", "7", "2", "0", "3", "6", "8", "5", "4", "7", "7", "5", "8", "0", "7">>),
      ("add_weeks" :> <<"-", "9", "2", "2", "3", "3", "7", "2", "0", "3", "6", "8", "5", "4", "7", "7", "5", "8", "0", "8">>),
      ("sub_weeks" :> <<"-", "9", "2", "2", "3", "3", "7", "2", "0", "3", "6", "8", "5", "4", "7", "7", "5", "8", "0", "8">>),
      ("add_weeks" :> <<"1", "3", "0", "0", "0", "0", "0", "0">>),
      ("sub_weeks" :> <<"1", "3", "0", "0", "0", "0", "0", "0">>),
      ("add_days" :> <<"0">>),
      ("sub_days" :> <<"0">>),
      ("add_days" :> <<"1">>),
      ("sub_days" :> <<"1">>),
      ("add_days" :> <<"-", "1">>),
      ("sub_days" :> <<"-", "1">>),
      ("add_days" :> <<"9", "5", "0", "0", "0", "0", "0", "0">>),
      ("sub_days" :> <<"9", "5", "0", "0", "0", "0", "0", "0">>),
      ("add_days" :> <<"2", "0", "0", "0", "0", "0", "0", "0", "0">>),
      ("sub_days" :> <<"2", "0", "0", "0", "0", "0", "0", "0", "0">>),
      ("add_days" :> <<"1", "8", "4", "4", "6", "7", "4", "4", "0", "7", "3", "7", "0", "9", "5", "5", "1", "6", "1", "5">>),
      ("sub_days" :> <<"1", "8", "4", "4", "6", "7", "4", "4", "0", "7", "3", "7", "0", "9", "5", "5", "1", "6", "1", "5">>),
      ("add_hours" :> <<"0">>),
      ("sub_hours" :> <<"0">>),
      ("add_hours" :> <<"1">>),
      ("sub_hours" :> <<"1">>),
      ("add_hours" :> <<"-", "1">>),
      ("sub_hours" :> <<"-", "1">>),
      ("add_hours" :> <<"2", "5", "6", "2", "0", "4", "7", "7", "8", "8", "0", "1", "5">>),
      ("sub_hours" :> <<"2", "5", "6", "2", "0", "4", "7", "7", "8", "8", "0", "1", "5">>),
      ("add_hours" :> <<"2", "5", "6", "2", "0", "4", "7", "7", "8", "8", "0", "1", "6">>),
      ("sub_hours" :> <<"2", "5", "6", "2", "0", "4", "7", "7", "8", "8", "0", "1", "6">>),
      ("add_hours" :> <<"-", "9", "2", "2", "3", "3", "7", "2", "0", "3", "6", "8", "5", "4", "7", "7", "5", "8", "0", "8">>),
      ("sub_hours" :> <<"-", "9", "2", "2", "3", "3", "7", "2", "0", "3", "6", "8", "5", "4", "7", "7", "5", "8", "0", "8">>),
      ("add_hours" :> <<"2", "2", "0", "0", "0", "0", "0", "0", "0", "0">>),
      ("sub_hours" :> <<"2", "2", "0", "0", "0", "0", "0", "0", "0", "0">>),
      ("add_minutes" :> <<"0">>),
      ("sub_minutes" :> <<"0">>),
      ("add_minutes" :> <<"1">>),
      ("sub_minutes" :> <<"1">>),
      ("add_minutes" :> <<"-", "1">>),
      ("sub_minutes" :> <<"-", "1">>),
      ("add_minutes" :> <<"1", "5", "3", "7", "2", "2", "8", "6", "7", "2", "8", "0", "9", "1", "2">>),
      ("sub_minutes" :> <<"1", "5", "3", "7", "2", "2", "8", "6", "7", "2", "8", "0", "9", "1", "2">>),
      ("add_minutes" :> <<"1", "5", "3", "7", "2", "2", "8", "6", "7", "2", "8", "0", "9", "1", "3">>),
      ("sub_minutes" :> <<"1", "5", "3", "7", "2", "2", "8", "6", "7", "2", "8", "0", "9", "1", "3">>),
      ("add_minutes" :> <<"9", "2", "2", "3", "3", "7", "2", "0", "3", "6", "8", "5", "4", "7", "7", "5", "8", "0", "7">>),
      ("sub_minutes" :> <<"9", "2", "2", "3", "3", "7", "2", "0", "3", "6", "8", "5", "4", "7", "7", "5", "8", "0", "7">>),
      ("add_minutes" :> <<"1", "3", "0", "0", "0", "0", "0", "0", "0", "0", "0", "0">>),
      ("sub_minutes" :> <<"1", "3", "0", "0", "0", "0", "0", "0", "0", "0", "0", "0">>),
      ("add_seconds" :> <<"0">>),
      ("sub_seconds" :> <<"0">>),
      ("add_seconds" :> <<"1">>),
      ("sub_seconds" :> <<"1">>),
      ("add_seconds" :> <<"-", "1">>),
      ("sub_seconds" :> <<"-", "1">>),
      ("add_seconds" :> <<"9", "2", "2", "3", "3", "7", "2", "0", "3", "6", "8", "5", "4", "7", "7", "5">>),
      ("sub_seconds" :> <<"9", "2", "2", "3", "3", "7", "2", "0", "3", "6", "8", "5", "4", "7", "7", "5">>),
      ("add_seconds" :> <<"9", "2", "2", "3", "3", "7", "2", "0", "3", "6", "8", "5", "4", "7", "7", "6">>),
      ("sub_seconds" :> <<"9", "2", "2", "3", "3", "7", "2", "0", "3", "6", "8", "5", "4", "7", "7", "6">>),
      ("add_seconds" :> <<"-", "9", "2", "2", "3", "3", "7", "2", "0", "3", "6", "8", "5", "4", "7", "7", "5">>),
      ("sub_seconds" :> <<"-", "9", "2", "2", "3", "3", "7", "2", "0", "3", "6", "8", "5", "4", "7", "7", "5">>),
      ("add_seconds" :> <<"-", "9", "2", "2", "3", "3", "7", "2", "0", "3", "6", "8", "5", "4", "7", "7", "6">>),
      ("sub_seconds" :> <<"-", "9", "2", "2", "3", "3", "7", "2", "0", "3", "6", "8", "5", "4", "7", "7", "6">>),
      ("add_seconds" :> <<"8", "0", "0", "0", "0", "0", "0", "0", "0", "0", "0", "0", "0">>),
      ("sub_seconds" :> <<"8", "0", "0", "0", "0", "0", "0", "0", "0", "0", "0", "0", "0">>),
      ("add_seconds" :> <<"-", "8", "0", "0", "0", "0", "0", "0", "0", "0", "0", "0", "0", "0">>),
      ("sub_seconds" :> <<"-", "8", "0", "0", "0", "0", "0", "0", "0", "0", "0", "0", "0", "0">>),
      ("add_milliseconds" :> <<"0">>),
      ("sub_milliseconds" :> <<"0">>),
      ("add_milliseconds" :> <<"1">>),
      ("sub_milliseconds" :> <<"1">>),
      ("add_milliseconds" :> <<"-", "1">>),
      ("sub_milliseconds" :> <<"-", "1">>),
      ("add_milliseconds" :> <<"9", "2", "2", "3", "3", "7", "2", "0", "3", "6", "8", "5", "4", "7", "7", "5", "8", "0", "7">>),
      ("sub_milliseconds" :> <<"9", "2", "2", "3", "3", "7", "2", "0", "3", "6", "8", "5", "4", "7", "7", "5", "8", "0", "7">>),
      ("add_milliseconds" :> <<"-", "9", "2", "2", "3", "3", "7", "2", "0", "3", "6", "8", "5", "4", "7", "7", "5", "8", "0", "7">>),
      ("sub_milliseconds" :> <<"-", "9", "2", "2", "3", "3", "7", "2", "0", "3", "6", "8", "5", "4", "7", "7", "5", "8", "0", "7">>),
      ("add_milliseconds" :> <<"-", "9", "2", "2", "3", "3", "7", "2", "0", "3", "6", "8", "5", "4", "7", "7", "5", "8", "0", "8">>),
      ("sub_milliseconds" :> <<"-", "9", "2", "2", "3", "3", "7", "2", "0", "3", "6", "8", "5", "4", "7", "7", "5", "8", "0", "8">>),
      ("add_milliseconds" :> <<"8", "0", "0", "0", "0", "0", "0", "0", "0", "0", "0", "0", "0", "0", "0", "0">>),
      ("sub_milliseconds" :> <<"8", "0", "0", "0", "0", "0", "0", "0", "0", "0", "0", "0", "0", "0", "0", "0">>),
      ("add_microseconds" :> <<"0">>),
      ("sub_microseconds" :> <<"0">>),
      ("add_microseconds" :> <<"1">>),
      ("sub_microseconds" :> <<"1">>),
      ("add_microseconds" :> <<"-", "1">>),
      ("sub_microseconds" :> <<"-", "1">>),
      ("add_microseconds" :> <<"9", "2", "2", "3", "3", "7", "2", "0", "3", "6", "8", "5", "4", "7", "7", "5", "8", "0", "7">>),
      ("sub_microseconds" :> <<"9", "2", "2", "3", "3", "7", "2", "0", "3", "6", "8", "5", "4", "7", "7", "5", "8", "0", "7">>),
      ("add_microseconds" :> <<"-", "9", "2", "2", "3", "3", "7", "2", "0", "3", "6", "8", "5", "4", "7", "7", "5", "8", "0", "8">>),
      ("sub_microseconds" :> <<"-", "9", "2", "2", "3", "3", "7", "2", "0", "3", "6", "8", "5", "4", "7", "7", "5", "8", "0", "8">>),
      ("add_nanoseconds" :> <<"0">>),
      ("sub_nanoseconds" :> <<"0">>),
      ("add_nanoseconds" :> <<"1">>),
      ("sub_nanoseconds" :> <<"1">>),
      ("add_nanoseconds" :> <<"-", "1">>),
      ("sub_nanoseconds" :> <<"-", "1">>),
      ("add_nanoseconds" :> <<"9", "2", "2", "3", "3", "7", "2", "0", "3", "6", "8", "5", "4", "7", "7", "5", "8", "0", "7">>),
      ("sub_nanoseconds" :> <<"9", "2", "2", "3", "3", "7", "2", "0", "3", "6", "8", "5", "4", "7", "7", "5", "8", "0", "7">>),
      ("add_nanoseconds" :> <<"-", "9", "2", "2", "3", "3", "7", "2", "0", "3", "6", "8", "5", "4", "7", "7", "5", "8", "0", "8">>),
      ("sub_nanoseconds" :> <<"-", "9", "2", "2", "3", "3", "7", "2", "0", "3", "6", "8", "5", "4", "7", "7", "5", "8", "0", "8">>) }

\* an instant and one delta
DeltaCalls == {Merge(i, d) : i \in DeltaStarts, d \in DeltaValues}

\* instants on the 31st, the 29th of February, the 15th, and the two ends of the
\* range of DateTime
MonthDeltaStarts ==
    { ("from_rfc3339" :> <<"2", "0", "2", "0", "-", "0", "1", "-", "3", "1", "T", "1", "2", ":", "0", "0", ":", "0", "0", "Z">>),
      ("from_rfc3339" :> <<"2", "0", "1", "9", "-", "0", "1", "-", "3", "1", "T", "1", "2", ":", "0", "0", ":", "0", "0", ".", "5", "Z">>),
      ("from_rfc3339" :> <<"2", "0", "2", "0", "-", "0", "3", "-", "3", "1", "T", "0", "0", ":", "0", "0", ":", "0", "0", "Z">>),
      ("from_rfc3339" :> <<"2", "0", "2", "0", "-", "0", "2", "-", "2", "9", "T", "2", "3", ":", "3", "0", ":", "0", "0", "-", "0", "1", ":", "0", "0">>),
      ("from_rfc3339" :> <<"2", "0", "1", "9", "-", "1", "2", "-", "1", "5", "T", "0", "6", ":", "0", "7", ":", "0", "8", "Z">>),
      ("from_timestamp" :> <<"8", "2", "1", "0", "2", "6", "6", "8", "7", "6", "7", "9", "9">>),
      ("from_timestamp" :> <<"-", "8", "3", "3", "4", "6", "0", "1", "2", "2", "8", "8", "0", "0">>) }

\* add_months or sub_months: counts that lead to longer and to shorter months, to
\* years outside the range, and texts that are no u32
MonthDeltaValues ==
    { ("add_months" :> <<"0">>),
      ("sub_months" :> <<"0">>),
      ("add_months" :> <<"1">>),
      ("sub_months" :> <<"1">>),
      ("add_months" :> <<"2">>),
      ("sub_months" :> <<"2">>),
      ("add_months" :> <<"3">>),
      ("sub_months" :> <<"3">>),
      ("add_months" :> <<"1", "1">>),
      ("sub_months" :> <<"1", "1">>),
      ("add_months" :> <<"1", "2">>),
      ("sub_months" :> <<"1", "2">>),
      ("add_months" :> <<"1", "3">>),
      ("sub_months" :> <<"1", "3">>),
      ("add_months" :> <<"4", "8">>),
      ("sub_months" :> <<"4", "8">>),
      ("add_months" :> <<"4", "9">>),
      ("sub_months" :> <<"4", "9">>),
      ("add_months" :> <<"1", "2", "0", "1">>),
      ("sub_months" :> <<"1", "2", "0", "1">>),
      ("add_months" :> <<"3", "1", "2", "1", "4", "0", "0">>),
      ("sub_months" :> <<"3", "1", "2", "1", "4", "0", "0">>),
      ("add_months" :> <<"3", "1", "4", "5", "7", "1", "6">>),
      ("sub_months" :> <<"3", "1", "4", "5", "7", "1", "6">>),
      ("add_months" :> <<"4", "2", "9", "4", "9", "6", "7", "2", "9", "5">>),
      ("sub_months" :> <<"4", "2", "9", "4", "9", "6", "7", "2", "9", "5">>),
      ("add_months" :> <<"4", "2", "9", "4", "9", "6", "7", "2", "9", "6">>),
      ("sub_months" :> <<"4", "2", "9", "4", "9", "6", "7", "2", "9", "6">>),
      ("add_months" :> <<"-", "1">>),
      ("sub_months" :> <<"-", "1">>),
      ("add_months" :> <<"x">>),
      ("sub_months" :> <<"x">>) }

\* an instant shown in UTC or at -01:00 and one delta of months
MonthDeltaCalls ==
    {Merge(i, Merge(z, d)) :
        i \in MonthDeltaStarts,
        z \in {<<>>, ("with_timezone" :> <<"-", "0", "1", ":", "0", "0">>)},
        d \in MonthDeltaValues}

\* a summer and a winter instant, and the last second before each of the two
\* daylight-saving changes of 2019 in America/Edmonton
ZoneStarts ==
    { ("from_timestamp" :> <<"6", "1", "8", "6", "5", "8", "2", "1", "1">>),
      ("from_rfc3339" :> <<"2", "0", "2", "0", "-", "0", "1", "-", "3", "1", "T", "1", "2", ":", "0", "0", ":", "0", "0", "Z">>),
      ("from_rfc3339" :> <<"2", "0", "1", "9", "-", "0", "3", "-", "1", "0", "T", "0", "8", ":", "5", "9", ":", "5", "9", "Z">>),
      ("from_rfc3339" :> <<"2", "0", "1", "9", "-", "1", "1", "-", "0", "3", "T", "0", "7", ":", "5", "9", ":", "5", "9", ".", "5", "Z">>) }

\* modifiers that carry an instant across a daylight-saving change, or do not
ZoneModifiers ==
    { <<>>,
      ("add_months" :> <<"6">>),
      ("sub_months" :> <<"6">>),
      ("add_days" :> <<"1", "8", "0">>),
      ("sub_weeks" :> <<"2", "6">>),
      ("add_hours" :> <<"1">>),
      ("add_seconds" :> <<"1">>),
      ("add_nanoseconds" :> <<"5", "0", "0", "0", "0", "0", "0", "0", "0">>),
      ("with_month" :> <<"1">>),
      ("with_month" :> <<"7">>),
      ("with_year" :> <<"1", "9", "6", "0">>),
      ("with_ordinal" :> <<"2", "0", "0">>),
      ("with_hour" :> <<"3">>),
      (("with_month" :> <<"7">>) @@ ("add_months" :> <<"6">>)),
      ("add_days" :> <<"a", "b", "c">>),
      (("with_day" :> <<"3", "1">>) @@ ("sub_months" :> <<"1">>)) }

\* an instant shown in a named zone, modifiers, and the default output or
\* to_rfc2822
ZoneCalls ==
    {Merge(i, Merge(("with_timezone" :> z), Merge(m, f))) :
        i \in ZoneStarts,
        z \in {TzEdmonton, TzTokyo},
        m \in ZoneModifiers,
        f \in {<<>>, ("to_rfc2822" :> <<"t", "r", "u", "e">>)}}

\* instants on the 31st of a 31-day month, the 29th of February, the 15th and
\* the 9th, in leap years and in others
SetterStarts ==
    { ("from_rfc3339" :> <<"2", "0", "1", "9", "-", "0", "1", "-", "3", "1", "T", "1", "2", ":", "0", "0", ":", "0", "0", ".", "5", "Z">>),
      ("from_rfc3339" :> <<"2", "0", "2", "0", "-", "0", "1", "-", "1", "5", "T", "0", "6", ":", "0", "7", ":", "0", "8", "Z">>),
      ("from_rfc3339" :> <<"2", "0", "1", "9", "-", "0", "3", "-", "3", "1", "T", "0", "0", ":", "0", "0", ":", "0", "0", "Z">>),
      ("from_rfc3339" :> <<"2", "0", "2", "0", "-", "0", "2", "-", "2", "9", "T", "2", "3", ":", "3", "0", ":", "0", "0", "-", "0", "1", ":", "0", "0">>),
      ("from_timestamp" :> <<"6", "1", "8", "6", "5", "8", "2", "1", "1">>) }

\* sets of date setters: sets whose combined date exists while an intermediate
\* date does not, sets that exist at every step, and single setters
SetterSets ==
    { <<>>,
      (("with_month" :> <<"2">>) @@ ("with_day" :> <<"1">>)),
      (("with_month" :> <<"2">>) @@ ("with_day" :> <<"2", "9">>)),
      (("with_month" :> <<"4">>) @@ ("with_day" :> <<"3", "0">>)),
      (("with_ordinal" :> <<"3", "6", "6">>) @@ ("with_year" :> <<"2", "0", "2", "0">>)),
      (("with_ordinal" :> <<"3", "6", "6">>) @@ ("with_year" :> <<"2", "0", "1", "9">>)),
      (("with_ordinal0" :> <<"3", "6", "5">>) @@ ("with_year" :> <<"2", "0", "2", "4">>)),
      (("with_ordinal" :> <<"6", "0">>) @@ ("with_month" :> <<"2">>)),
      (("with_year" :> <<"2", "0", "1", "9">>) @@ ("with_day" :> <<"2", "8">>)),
      (("with_year" :> <<"2", "0", "1", "9">>) @@ ("with_month" :> <<"3">>)),
      (("with_month0" :> <<"1">>) @@ ("with_day0" :> <<"0">>)),
      (("with_month" :> <<"2">>) @@ ("with_month0" :> <<"2">>)),
      (("with_day" :> <<"3", "1">>) @@ ("with_day0" :> <<"2", "7">>)),
      (("with_month" :> <<"1", "2">>) @@ ("with_day" :> <<"3", "1">>) @@ ("with_year" :> <<"2", "0", "2", "1">>)),
      ("with_day" :> <<"3", "1">>),
      ("with_month" :> <<"2">>),
      ("with_ordinal" :> <<"3", "6", "6">>),
      ("with_year" :> <<"2", "0", "2", "1">>),
      (("with_month" :> <<"x">>) @@ ("with_day" :> <<"1">>)),
      (("with_ordinal" :> <<"1">>) @@ ("with_ordinal0" :> <<"3", "6", "5">>)) }

\* an instant and a set of date setters
SetterSetCalls == {Merge(i, s) : i \in SetterStarts, s \in SetterSets}

\* instants before and after the epoch, one with an offset and a fraction, one
\* whose count of nanoseconds is no i64
FlagStarts ==
    { ("from_timestamp" :> <<"6", "1", "8", "6", "5", "8", "2", "1", "1">>),
      ("from_timestamp" :> <<"-", "1">>),
      ("from_timestamp_millis" :> <<"6", "1", "8", "6", "5", "8", "2", "1", "1", "1", "2", "3">>),
      ("from_rfc3339" :> <<"1", "9", "8", "9", "-", "0", "8", "-", "0", "9", "T", "0", "9", ":", "3", "0", ":", "1", "1", ".", "5", "+", "0", "2", ":", "0", "0">>),
      ("from_rfc3339" :> <<"1", "6", "0", "0", "-", "0", "1", "-", "0", "1", "T", "0", "0", ":", "0", "0", ":", "0", "0", "Z">>) }

\* the finalizers to_rfc2822 and to_timestamp* with the values true, false, 0
\* and the empty text, alone and beside other finalizers
FlagSets ==
    { <<>>,
      ("to_rfc2822" :> <<"t", "r", "u", "e">>),
      ("to_rfc2822" :> <<"f", "a", "l", "s", "e">>),
      ("to_rfc2822" :> <<>>),
      ("to_rfc2822" :> <<"0">>),
      ("to_timestamp" :> <<"t", "r", "u", "e">>),
      ("to_timestamp" :> <<"f", "a", "l", "s", "e">>),
      ("to_timestamp" :> <<>>),
      ("to_timestamp" :> <<"0">>),
      ("to_timestamp_millis" :> <<"t", "r", "u", "e">>),
      ("to_timestamp_millis" :> <<"f", "a", "l", "s", "e">>),
      ("to_timestamp_millis" :> <<>>),
      ("to_timestamp_millis" :> <<"0">>),
      ("to_timestamp_micros" :> <<"t", "r", "u", "e">>),
      ("to_timestamp_micros" :> <<"f", "a", "l", "s", "e">>),
      ("to_timestamp_micros" :> <<>>),
      ("to_timestamp_micros" :> <<"0">>),
      ("to_timestamp_nanos" :> <<"t", "r", "u", "e">>),
      ("to_timestamp_nanos" :> <<"f", "a", "l", "s", "e">>),
      ("to_timestamp_nanos" :> <<>>),
      ("to_timestamp_nanos" :> <<"0">>),
      (("to_timestamp" :> <<"f", "a", "l", "s", "e">>) @@ ("years_since" :> <<"1", "9", "8", "0", "-", "0", "1", "-", "0", "1", "T", "0", "0", ":", "0", "0", ":", "0", "0", "Z">>)),
      (("to_timestamp_nanos" :> <<"f", "a", "l", "s", "e">>) @@ ("years_since" :> <<"1", "9", "8", "0", "-", "0", "1", "-", "0", "1", "T", "0", "0", ":", "0", "0", ":", "0", "0", "Z">>)),
      (("to_rfc2822" :> <<"f", "a", "l", "s", "e">>) @@ ("to_timestamp" :> <<"t", "r", "u", "e">>)),
      (("to_timestamp_millis" :> <<>>) @@ ("to_timestamp_micros" :> <<"t", "r", "u", "e">>)),
      (("to_timestamp" :> <<"f", "a", "l", "s", "e">>) @@ ("output_format" :> <<"%", "Y">>)),
      ("years_since" :> <<"1", "9", "8", "0", "-", "0", "1", "-", "0", "1", "T", "0", "0", ":", "0", "0", ":", "0", "0", "Z">>) }

\* no modifier, or one day added
FlagModifiers ==
    { <<>>,
      ("add_days" :> <<"1">>) }

\* an instant, a modifier and finalizers
FlagCalls == {Merge(Merge(i, m), f) : i \in FlagStarts, m \in FlagModifiers, f \in FlagSets}

\* instants, one of them no integer
LocaleStarts ==
    { ("from_timestamp" :> <<"6", "1", "8", "6", "5", "8", "2", "1", "1">>),
      ("from_rfc3339" :> <<"2", "0", "2", "0", "-", "0", "2", "-", "2", "9", "T", "2", "3", ":", "3", "0", ":", "0", "0", "-", "0", "1", ":", "0", "0">>),
      ("from_timestamp" :> <<"x">>),
      ("from_rfc3339" :> <<"1", "6", "0", "0", "-", "0", "1", "-", "0", "1", "T", "0", "0", ":", "0", "0", ":", "0", "0", "Z">>) }

\* no locale, the locales of the model, and tags that are no locale
LocaleValues ==
    { <<>>,
      ("locale" :> <<"e", "n", "_", "U", "S">>),
      ("locale" :> <<"n", "l", "_", "N", "L">>),
      ("locale" :> <<"G", "A", "G", "A">>),
      ("locale" :> <<>>) }

\* patterns with and without a month name, one with an unknown specifier, and
\* the other finalizers
LocaleFinalizers ==
    { <<>>,
      ("output_format" :> <<"%", "d", " ", "%", "B", " ", "%", "Y">>),
      ("output_format" :> <<"%", "H", ":", "%", "M">>),
      ("output_format" :> <<"%", "Q">>),
      (("output_format" :> <<"%", "B">>) @@ ("to_timestamp" :> <<"t", "r", "u", "e">>)),
      ("to_timestamp" :> <<"t", "r", "u", "e">>),
      ("to_rfc2822" :> <<"t", "r", "u", "e">>),
      ("to_timestamp_nanos" :> <<"t", "r", "u", "e">>),
      ("years_since" :> <<"1", "9", "8", "0", "-", "0", "1", "-", "0", "1", "T", "0", "0", ":", "0", "0", ":", "0", "0", "Z">>),
      ("years_since" :> <<"2", "0", "3", "0", "-", "0", "1", "-", "0", "1", "T", "0", "0", ":", "0", "0", ":", "0", "0", "Z">>),
      ("years_since" :> <<"x">>),
      (("to_timestamp_millis" :> <<"t", "r", "u", "e">>) @@ ("years_since" :> <<"x">>)) }

\* no modifier, a month, and a month the day of the instant lacks
LocaleModifiers ==
    { <<>>,
      ("with_month" :> <<"3">>),
      (("with_day" :> <<"3", "1">>) @@ ("with_month" :> <<"2">>)) }

\* an instant, a modifier, a locale and finalizers
LocaleCalls ==
    {Merge(Merge(Merge(i, m), l), f) :
         i \in LocaleStarts, m \in LocaleModifiers, l \in LocaleValues, f \in LocaleFinalizers}

(***************************************************************************)
(* Specifications: call() run on every invocation of one family            *)
(***************************************************************************)
InitInitializers == \E hash \in InitializerCalls : Entry(hash, Now0, TzEdmonton, TRUE)

SpecInitializers == InitInitializers /\ [][Next]_vars

InitFinalizers == \E hash \in FinalizerCalls : Entry(hash, Now0, TzEdmonton, TRUE)

SpecFinalizers == InitFinalizers /\ [][Next]_vars

InitModifierOrder == \E hash \in ModifierOrderCalls : Entry(hash, Now0, TzEdmonton, TRUE)

SpecModifierOrder == InitModifierOrder /\ [][Next]_vars

Init == \E hash \in PipelineCalls, sink \in BOOLEAN : Entry(hash, Now0, TzEdmonton, sink)

Spec == Init /\ [][Next]_vars

InitTimezone ==
    \E hash \in TimezoneCalls, zone \in {TzEdmonton, TzTokyo} : Entry(hash, Now0, zone, TRUE)

SpecTimezone == InitTimezone /\ [][Next]_vars

InitFieldSetters == \E hash \in FieldSetterCalls : Entry(hash, Now0, TzEdmonton, TRUE)

SpecFieldSetters == InitFieldSetters /\ [][Next]_vars

InitEpoch == \E hash \in EpochCalls : Entry(hash, Now0, TzEdmonton, TRUE)

SpecEpoch == InitEpoch /\ [][Next]_vars

InitNanos == \E hash \in NanosCalls : Entry(hash, Now0, TzEdmonton, TRUE)

SpecNanos == InitNanos /\ [][Next]_vars

InitRoundTrip == \E hash \in RoundTripCalls : Entry(hash, Now0, TzEdmonton, TRUE)

SpecRoundTrip == InitRoundTrip /\ [][Next]_vars

InitInverse == \E hash \in InverseCalls : Entry(hash, Now0, TzEdmonton, TRUE)

SpecInverse == InitInverse /\ [][Next]_vars

InitMonth == \E hash \in MonthCalls : Entry(hash, Now0, TzEdmonton, TRUE)

SpecMonth == InitMonth /\ [][Next]_vars

InitIntegers == \E hash \in IntegerCalls : Entry(hash, Now0, TzEdmonton, TRUE)

SpecIntegers == InitIntegers /\ [][Next]_vars

InitEnvironment ==
    \E hash \in EnvironmentCalls, clock \in Clocks, zone \in LocalZones :
        Entry(hash, clock, zone, TRUE)

SpecEnvironment == InitEnvironment /\ [][Next]_vars

InitDeltas == \E hash \in DeltaCalls : Entry(hash, Now0, TzEdmonton, TRUE)

SpecDeltas == InitDeltas /\ [][Next]_vars

InitMonthDeltas == \E hash \in MonthDeltaCalls : Entry(hash, Now0, TzEdmonton, TRUE)

SpecMonthDeltas == InitMonthDeltas /\ [][Next]_vars

InitZones == \E hash \in ZoneCalls : Entry(hash, Now0, TzTokyo, TRUE)

SpecZones == InitZones /\ [][Next]_vars

InitSetterSets == \E hash \in SetterSetCalls : Entry(hash, Now0, TzEdmonton, TRUE)

SpecSetterSets == InitSetterSets /\ [][Next]_vars

InitFlags == \E hash \in FlagCalls : Entry(hash, Now0, TzEdmonton, TRUE)

SpecFlags == InitFlags /\ [][Next]_vars

InitLocales == \E hash \in LocaleCalls : Entry(hash, Now0, TzEdmonton, TRUE)

SpecLocales == InitLocales /\ [][Next]_vars

(***************************************************************************)
(* Properties of call()                                                    *)
(***************************************************************************)
\* the first key of order that hash holds, else default
FirstPresent(order, hash, default) ==
    IF \E i \in 1..Len(order) : has(hash, order[i])
    THEN order[CHOOSE i \in 1..Len(order) :
                   /\ has(hash, order[i])
                   /\ \A j \in 1..(i - 1) : ~has(hash, order[j])]
    ELSE default

\* hash with the parameters keys taken away
Without(hash, keys) == [k \in DOMAIN hash \ keys |-> hash[k]]

\* the keys of order that hash holds, in the order of order
Present(order, hash) == SelectSeq(order, LAMBDA k : has(hash, k))

Range(s) == {s[i] : i \in 1..Len(s)}

IsPrefix(s, t) == Len(s) <= Len(t) /\ SubSeq(t, 1, Len(s)) = s

\* the parameter call() evaluated last
LastStep == IF steps = <<>> THEN "" ELSE steps[Len(steps)]

\* the kind of failure a returned error stands for, told by its message
ErrorKind(res) ==
    IF res.tag # "Err" THEN "none"
    ELSE IF res.desc = "Missing input_format hash parameter" THEN "MissingParameter"
    ELSE IF res.desc \in {"Invalid seconds timestamp", "Invalid milli-seconds timestamp",
                          "Invalid micro-seconds timestamp", "Invalid nano-seconds timestamp"}
                         \cup {InvalidDesc(k) : k \in Range(Tail(ModifierOrder))}
        THEN "InvalidInteger"
    ELSE IF res.desc \in {"Invalid RFC2822 datetime format", "Invalid RFC3339 datetime format",
                          "Invalid datetime format or format doesn't match input"}
        THEN "InvalidFormat"
    ELSE IF res.desc \in {RangeDesc(k) : k \in Range(Tail(ModifierOrder))}
        THEN "FieldOutOfRange"
    ELSE IF res.desc \in {"Failed to parse timezone offset. Supported values are IANA timezones, local or valid fixed offset",
                          "Failed to parse IANA timezone. Supported values are IANA timezones, local or valid fixed offset"}
        THEN "InvalidTimezone"
    ELSE IF res.desc = "Invalid locale provided" THEN "InvalidLocale"
    ELSE IF res.desc = "Negative range, try swapping the parameters." THEN "NegativeRange"
    ELSE IF res.desc = "io error" THEN "Sink"
    ELSE "OutOfRange"

\* the initializers, highest priority first
InitializerPriority ==
    <<"from_timestamp", "from_timestamp_millis", "from_timestamp_micros",
      "from_timestamp_nanos", "from_rfc2822", "from_rfc3339", "from_str">>

\* the finalizers, highest priority first
FinalizerPriority ==
    <<"output_format", "to_rfc2822", "to_timestamp", "to_timestamp_millis",
      "to_timestamp_micros", "to_timestamp_nanos", "years_since">>

\* the modifiers, in the order they are to be applied
ModifierSequence ==
    <<"with_timezone",
      "with_ordinal", "with_ordinal0", "with_year", "with_month", "with_month0",
      "with_day", "with_day0", "with_hour", "with_minute", "with_second",
      "with_nanosecond",
      "add_months", "add_weeks", "add_days", "add_hours", "add_minutes",
      "add_seconds", "add_milliseconds", "add_microseconds", "add_nanoseconds",
      "sub_months", "sub_weeks", "sub_days", "sub_hours", "sub_minutes",
      "sub_seconds", "sub_milliseconds", "sub_microseconds", "sub_nanoseconds">>

\* the modifiers call() has evaluated so far
ModifierSteps == SelectSeq(steps, LAMBDA k : k \in Range(ModifierSequence))

\* a finalizer has been evaluated
FinalizerRan == LastStep \in Range(FinalizerPriority) \cup {"to_rfc3339"}

\* C1: the starting instant is computed from the highest-priority initializer
\* present, in the order from_timestamp, from_timestamp_millis,
\* from_timestamp_micros, from_timestamp_nanos, from_rfc2822, from_rfc3339,
\* from_str, and from nothing else: the outcome of the initializers is the
\* outcome of that one initializer on a call that holds no other initializer,
\* whatever the lower-priority ones hold.
C1_InitializerPriority ==
    pc # "initializers" =>
        LET key == FirstPresent(InitializerPriority, h, "now")
            alone == Without(h, Range(InitializerPriority) \ {key})
            r == InitializerBranch(key, alone, now)
        IN  /\ steps[1] = key
            /\ IF r.ok
               THEN start = r.v
               ELSE start = None /\ result = r.err /\ steps = <<key>>

\* a call that succeeds on from_timestamp although it holds a from_rfc3339
\* no parser accepts
C1_Witness ==
    /\ pc = "done"
    /\ result = ResultOk
    /\ has(h, "from_timestamp")
    /\ has(h, "from_rfc3339")
    /\ ~parse_from_rfc3339(h["from_rfc3339"]).some
    /\ start = from_timestamp(h["from_timestamp"]).v

\* C2: the output is rendered by the highest-priority finalizer present, in
\* the order output_format, to_rfc2822, to_timestamp, to_timestamp_millis,
\* to_timestamp_micros, to_timestamp_nanos, years_since, else as RFC 3339;
\* finalizers of lower priority have no effect, malformed or not.
C2_FinalizerPriority ==
    FinalizerRan =>
        LET key == FirstPresent(FinalizerPriority, h, "to_rfc3339")
            alone == Without(h, Range(FinalizerPriority) \ {key})
            r == FinalizerBranch(key, alone, datetime)
        IN  /\ LastStep = key
            /\ IF r.ok
               THEN output = r.v /\ pc \in {"write", "done"} /\ ErrorKind(result) \in {"none", "Sink"}
               ELSE output = <<>> /\ result = r.err /\ pc = "done"

\* a call that writes the seconds timestamp although it holds a years_since
\* that is no RFC 3339 text
C2_Witness ==
    /\ pc = "done"
    /\ result = ResultOk
    /\ has(h, "to_timestamp")
    /\ has(h, "years_since")
    /\ ~parse_from_rfc3339(h["years_since"]).some
    /\ out = <<to_string(timestamp(datetime))>>

\* the modifiers of order applied one after the other to r, stopping at the
\* first that fails
RECURSIVE ApplyInOrder(_, _)
ApplyInOrder(order, r) ==
    IF order = <<>> \/ ~r.ok THEN r
    ELSE ApplyInOrder(Tail(order), Modifier(order[1], h, r.v, now, localTz))

\* C3: every modifier present is applied exactly once, in the order
\* with_timezone, the field setters from with_ordinal to with_nanosecond, the
\* additions from add_months to add_nanoseconds, the subtractions from
\* sub_months to sub_nanoseconds: the modifiers evaluated are at every moment a
\* prefix of that order, and once they are through the running value is the
\* starting instant with each of them applied once in that order.
C3_ModifierOrder ==
    /\ IsPrefix(ModifierSteps, Present(ModifierSequence, h))
    /\ (pc \in {"finalizers", "write"} \/ FinalizerRan) =>
           /\ ModifierSteps = Present(ModifierSequence, h)
           /\ ApplyInOrder(ModifierSequence, Okay(start)) = Okay(datetime)

\* a successful call with add_months and sub_days, where the other order gives
\* another instant
C3_Witness ==
    /\ pc = "done"
    /\ result = ResultOk
    /\ ModifierSteps = <<"add_months", "sub_days">>
    /\ Modifier("add_months", h, Modifier("sub_days", h, start, now, localTz).v, now, localTz).v
           # datetime

\* C4: a failing call writes nothing to the sink; a successful call writes the
\* complete output once, and only after the initializer, every modifier and
\* the finalizer have succeeded.
C4_SinkWrites ==
    /\ Len(out) <= 1
    /\ out # <<>> =>
           /\ out = <<output>>
           /\ pc = "done"
           /\ result = ResultOk
           /\ start # None
           /\ ModifierSteps = Present(ModifierSequence, h)
           /\ FinalizerRan
    /\ (pc = "done" /\ result = ResultOk) => out = <<output>>
    /\ (pc = "done" /\ result # ResultOk) => out = <<>>

\* a call whose finalizer fails after a modifier succeeded leaves the sink empty
C4_Witness ==
    /\ pc = "done"
    /\ result.tag = "Err"
    /\ LastStep = "years_since"
    /\ ModifierSteps # <<>>
    /\ datetime # None
    /\ out = <<>>

\* the modifiers of order walked from r: the result and the parameters looked at
RECURSIVE WalkModifiers(_, _, _)
WalkModifiers(order, r, seen) ==
    IF order = <<>> \/ ~r.ok THEN [r |-> r, seen |-> seen]
    ELSE WalkModifiers(Tail(order),
                       Modifier(order[1], h, r.v, now, localTz),
                       IF has(h, order[1]) THEN Append(seen, order[1]) ELSE seen)

\* the pipeline walked stage by stage up to its first failure
FirstFailure ==
    LET ikey == FirstPresent(InitializerPriority, h, "now")
        fkey == FirstPresent(FinalizerPriority, h, "to_rfc3339")
        Finish(m, f) ==
            IF ~f.ok THEN [result |-> f.err, steps |-> Append(m.seen, fkey)]
            ELSE [result |-> IF sinkOk THEN ResultOk ELSE WriteError,
                  steps |-> Append(m.seen, fkey)]
        Modified(m) ==
            IF ~m.r.ok THEN [result |-> m.r.err, steps |-> m.seen]
            ELSE Finish(m, FinalizerBranch(fkey, h, m.r.v))
    IN  Modified(WalkModifiers(ModifierSequence, InitializerBranch(ikey, h, now), <<ikey>>))

\* C5: the failure returned is that of the first failing step in pipeline
\* order (initializer, modifiers in their order, finalizer), and no parameter
\* after the failing step is evaluated.
C5_FailFast ==
    pc = "done" =>
        /\ result = FirstFailure.result
        /\ steps = FirstFailure.steps

\* a malformed from_timestamp next to a with_timezone no zone parser accepts:
\* the timestamp error is returned and with_timezone is never looked at
C5_Witness ==
    /\ pc = "done"
    /\ has(h, "from_timestamp")
    /\ has(h, "with_timezone")
    /\ ~with_timezone_param(h["with_timezone"], Now0, now, localTz).ok
    /\ steps = <<"from_timestamp">>
    /\ result.tag = "Err"
    /\ result.desc = "Invalid seconds timestamp"

\* from_str is the initializer the call selects
FromStrSelected ==
    /\ has(h, "from_str")
    /\ FirstPresent(InitializerPriority, h, "now") = "from_str"

\* C6: when from_str is the initializer selected, the call fails with
\* MissingParameter if input_format is absent, whatever the from_str text, and
\* with InvalidFormat if input_format is present and the text does not match
\* it; an input_format without from_str changes nothing.
C6_FromStrFormat ==
    pc # "initializers" =>
        /\ (FromStrSelected /\ ~has(h, "input_format")) =>
               /\ ErrorKind(result) = "MissingParameter"
               /\ steps = <<"from_str">>
               /\ start = None
        /\ (FromStrSelected /\ has(h, "input_format")
                /\ ~parse_from_str(h["from_str"], h["input_format"]).some) =>
               /\ ErrorKind(result) = "InvalidFormat"
               /\ steps = <<"from_str">>
               /\ start = None
        /\ (~has(h, "from_str") /\ has(h, "input_format")) =>
               LET bare == Without(h, {"input_format"})
                   r == InitializerBranch(InitializerKey(bare), bare, now)
               IN  IF r.ok THEN start = r.v ELSE result = r.err /\ start = None

\* a from_str text that the usual pattern would read, given without
\* input_format
C6_Witness ==
    /\ pc = "done"
    /\ DOMAIN h = {"from_str"}
    /\ parse_from_str(h["from_str"],
                      <<"%", "Y", "-", "%", "m", "-", "%", "d", " ",
                        "%", "H", ":", "%", "M", ":", "%", "S">>).some
    /\ ErrorKind(result) = "MissingParameter"
    /\ out = <<>>

\* a sign, two hour digits below 24, an optional colon, two minute digits
\* below 60, and nothing else
IsFixedOffsetText(s) ==
    LET Digits(d) ==
            /\ AllDigits(d)
            /\ TextVal(SubSeq(d, 1, 2), 0) < 24
            /\ TextVal(SubSeq(d, 3, 4), 0) < 60
    IN  /\ Len(s) \in {5, 6}
        /\ s[1] \in {"+", "-"}
        /\ IF Len(s) = 6
           THEN s[4] = ":" /\ Digits(<<s[2], s[3], s[5], s[6]>>)
           ELSE Digits(Tail(s))

\* local, a valid fixed offset or a recognized zone name
TimezoneAccepted(s) ==
    \/ to_lowercase(s) = LocalText
    \/ IsFixedOffsetText(s)
    \/ s \in TzNames

\* C7: with_timezone fails with InvalidTimezone if and only if its value is
\* neither local, a valid fixed offset (a sign plus HH:MM or HHMM within the
\* legal range, +11:11 included) nor a recognized zone name (Etc/GMT+10
\* included).
C7_TimezoneValues ==
    InSeq("with_timezone", steps) =>
        ((LastStep = "with_timezone" /\ ErrorKind(result) = "InvalidTimezone")
             <=> ~TimezoneAccepted(h["with_timezone"]))

\* the valid fixed offset +11:11 is turned down
C7_Witness ==
    /\ pc = "done"
    /\ has(h, "with_timezone")
    /\ h["with_timezone"] = <<"+", "1", "1", ":", "1", "1">>
    /\ LastStep = "with_timezone"
    /\ ErrorKind(result) = "InvalidTimezone"

\* the modifiers are through and every one of them succeeded
ModifiersDone == pc \in {"finalizers", "write"} \/ FinalizerRan

\* C8: with_timezone never changes the absolute instant, so that the
\* to_timestamp outputs are those of the same call without with_timezone;
\* without with_timezone the display offset is zero whatever offset the input
\* text carried.
C8_TimezoneKeepsInstant ==
    (ModifiersDone /\ ModifierSteps \in {<<>>, <<"with_timezone">>}) =>
        /\ datetime.days = start.days
        /\ datetime.secs = start.secs
        /\ datetime.frac = start.frac
        /\ ~has(h, "with_timezone") => datetime.off = 0
        /\ (pc = "done" /\ result = ResultOk
                /\ LastStep \in {"to_timestamp", "to_timestamp_millis",
                                 "to_timestamp_micros", "to_timestamp_nanos"}) =>
               LET bare == Without(h, {"with_timezone"})
                   m == Modifier("with_timezone", bare, start, now, localTz)
               IN  out = <<FinalizerBranch(LastStep, bare, m.v).v>>

\* an instant read from a text with offset +02:00, shown in America/Edmonton
\* and written as milliseconds
C8_Witness ==
    /\ pc = "done"
    /\ result = ResultOk
    /\ has(h, "from_rfc3339")
    /\ parse_from_rfc3339(h["from_rfc3339"]).v.off = 7200
    /\ has(h, "with_timezone")
    /\ h["with_timezone"] = TzEdmonton
    /\ datetime.off = -6 * 3600
    /\ LastStep = "to_timestamp_millis"

\* the values a field may be set to, given the date n the setter finds
LegalField(key, v, n) ==
    CASE key = "with_ordinal" -> v \in 1..DaysInYear(n.y)
      [] key = "with_ordinal0" -> v \in 0..(DaysInYear(n.y) - 1)
      [] key = "with_year" -> ValidYmd(v, n.m, n.d)
      [] key = "with_month" -> v \in 1..12 /\ ValidYmd(n.y, v, n.d)
      [] key = "with_month0" -> v \in 0..11 /\ ValidYmd(n.y, v + 1, n.d)
      [] key = "with_day" -> v \in 1..DaysInMonth(n.y, n.m)
      [] key = "with_day0" -> v \in 0..(DaysInMonth(n.y, n.m) - 1)
      [] key = "with_hour" -> v \in 0..23
      [] key = "with_minute" -> v \in 0..59
      [] key = "with_second" -> v \in 0..59
      [] key = "with_nanosecond" -> v \in 0..999999999

\* C9: each of the eleven field setters fails with FieldOutOfRange when its
\* value is calendar-invalid for the date it is applied to, and never lets the
\* value roll over into a neighbouring field.
C9_SetterRejectsInvalid ==
    \A i \in 2..12 :
        LET key == ModifierSequence[i]
        IN  (/\ has(h, key)
             /\ InSeq(key, steps)
             /\ ModifierSteps \in {<<key>>, <<"with_timezone", key>>}
             /\ parse(h[key], ParamType(key)).ok
             /\ ~LegalField(key, BigSmall(parse(h[key], ParamType(key)).val),
                            naive_local(Modifier("with_timezone", h, start, now, localTz).v)))
            => (LastStep = key /\ ErrorKind(result) = "FieldOutOfRange")

\* with_nanosecond beyond 999,999,999 is taken, and the second shown moves on
C9_Witness ==
    /\ pc = "done"
    /\ result = ResultOk
    /\ has(h, "with_nanosecond")
    /\ BigSmall(parse(h["with_nanosecond"], "u32").val) > 999999999
    /\ datetime.frac > 999999999

\* instant a is later than instant b
Later(a, b) ==
    \/ a.days > b.days
    \/ a.days = b.days /\ a.secs > b.secs
    \/ a.days = b.days /\ a.secs = b.secs /\ a.frac > b.frac

\* C10: years_since fails with NegativeRange if and only if the base instant
\* is absolutely later than the running instant; the display offset plays no
\* part.
C10_NegativeRangeIffLater ==
    (LastStep = "years_since" /\ parse_from_rfc3339(h["years_since"]).some) =>
        ((ErrorKind(result) = "NegativeRange")
             <=> Later(to_utc(parse_from_rfc3339(h["years_since"]).v), datetime))

\* a base half an hour before the instant, and yet NegativeRange
C10_Witness ==
    /\ pc = "done"
    /\ LastStep = "years_since"
    /\ parse_from_rfc3339(h["years_since"]).some
    /\ Later(datetime, to_utc(parse_from_rfc3339(h["years_since"]).v))
    /\ datetime.off # 0
    /\ ErrorKind(result) = "NegativeRange"

\* the decimal text of the integer a text parses to: no plus sign, no leading
\* zeros, no minus sign before zero
DecimalText(text) ==
    LET body == IF text # <<>> /\ text[1] \in {"+", "-"} THEN Tail(text) ELSE text
        Digits(d) ==
            IF d = <<>> THEN <<"0">>
            ELSE IF text[1] = "-" THEN <<"-">> \o d
            ELSE d
        RECURSIVE Stripped(_)
        Stripped(d) == IF d # <<>> /\ d[1] = "0" THEN Stripped(Tail(d)) ELSE d
    IN  Digits(Stripped(body))

\* the initializer and the finalizer of each resolution
EpochPairs ==
    { <<"from_timestamp", "to_timestamp">>,
      <<"from_timestamp_millis", "to_timestamp_millis">>,
      <<"from_timestamp_micros", "to_timestamp_micros">>,
      <<"from_timestamp_nanos", "to_timestamp_nanos">> }

\* C11: with no modifier present, from_timestamp=T with to_timestamp writes the
\* decimal text of T for every representable integer T, negative ones
\* included, and so do the millisecond, microsecond and nanosecond pairs.
C11_EpochEquivalence ==
    \A p \in EpochPairs :
        (/\ pc = "done"
         /\ DOMAIN h = {p[1], p[2]}
         /\ start # None)
        => (result = ResultOk /\ out = <<DecimalText(h[p[1]])>>)

\* a negative millisecond count that is no whole number of seconds comes back
C11_Witness ==
    /\ pc = "done"
    /\ DOMAIN h = {"from_timestamp_millis", "to_timestamp_millis"}
    /\ h["from_timestamp_millis"] = <<"-", "1", "5", "0", "0">>
    /\ start.frac = 500000000
    /\ out = <<h["from_timestamp_millis"]>>

\* the seconds timestamps of DateTime::MIN_UTC and DateTime::MAX_UTC
\* (-262143-01-01T00:00:00Z and +262142-12-31T23:59:59.999999999Z)
MinSecondsText == <<"-", "8", "3", "3", "4", "6", "0", "1", "2", "2", "8", "8", "0", "0">>

MaxSecondsText == <<"8", "2", "1", "0", "2", "6", "6", "8", "7", "6", "7", "9", "9">>

\* the decimal places below a second that an initializer's count carries
CountPlaces(key) ==
    CASE key = "from_timestamp" -> 0
      [] key = "from_timestamp_millis" -> 3
      [] key = "from_timestamp_micros" -> 6

\* a count of 10^-k seconds lies between the counts of the first and the last
\* representable instant
InCountRange(val, k) ==
    /\ BigCmp(val, parse(MinSecondsText \o [i \in 1..k |-> "0"], "i64").val) >= 0
    /\ BigCmp(val, parse(MaxSecondsText \o [i \in 1..k |-> "9"], "i64").val) <= 0

\* the count an instant has in the resolution of an initializer
CountOf(dt, key) ==
    CASE key = "from_timestamp" -> timestamp(dt)
      [] key = "from_timestamp_millis" -> timestamp_millis(dt)
      [] key = "from_timestamp_micros" -> timestamp_micros(dt)

\* C16: from_timestamp, from_timestamp_millis and from_timestamp_micros fail
\* with InvalidInteger on a text that is no 64-bit signed integer, fail with
\* OutOfRange on an integer outside the range of representable instants, and
\* otherwise give the instant with exactly that count of seconds,
\* milliseconds or microseconds; no instant is clamped or wrapped.
C16_TimestampInitializers ==
    \A key \in {"from_timestamp", "from_timestamp_millis", "from_timestamp_micros"} :
        (has(h, key) /\ pc # "initializers") =>
            LET p == parse(h[key], "i64")
            IN  IF ~p.ok
                THEN ErrorKind(result) = "InvalidInteger" /\ start = None /\ steps = <<key>>
                ELSE IF ~InCountRange(p.val, CountPlaces(key))
                THEN ErrorKind(result) = "OutOfRange" /\ start = None /\ steps = <<key>>
                ELSE /\ start # None
                     /\ CountOf(start, key) = p.val
                     /\ start.frac % Pow10(9 - CountPlaces(key)) = 0
                     /\ start.frac < 1000000000
                     /\ start.secs \in 0..86399
                     /\ start.off = 0

\* the microsecond after the last representable instant is an i64 and is
\* turned down
C16_Witness ==
    /\ pc = "done"
    /\ has(h, "from_timestamp_micros")
    /\ parse(h["from_timestamp_micros"], "i64").ok
    /\ h["from_timestamp_micros"] = <<"8", "2", "1", "0", "2", "6", "6", "8", "7", "6", "8", "0", "0",
                                     "0", "0", "0", "0", "0", "0">>
    /\ ErrorKind(result) = "OutOfRange"
    /\ out = <<>>

\* the nanoseconds from the epoch to an instant
NanoCount(dt) ==
    SignedMulAdd(SignedMulAdd(timestamp(dt), 100000, dt.frac \div 10000), 10000, dt.frac % 10000)

\* the magnitude of the least i64
I64MinMag == <<9, 2, 2, 3, 3, 7, 2, 0, 3, 6, 8, 5, 4, 7, 7, 5, 8, 0, 8>>

FitsI64(n) ==
    IF n.neg THEN MagCmp(n.mag, I64MinMag) <= 0
    ELSE MagCmp(n.mag, <<9, 2, 2, 3, 3, 7, 2, 0, 3, 6, 8, 5, 4, 7, 7, 5, 8, 0, 7>>) <= 0

\* C17: to_timestamp_nanos fails with OutOfRange exactly when the nanoseconds
\* from the epoch to the instant do not fit a 64-bit signed integer, and
\* otherwise writes that count exactly, never a wrapped or truncated number.
C17_TimestampNanos ==
    LastStep = "to_timestamp_nanos" =>
        IF FitsI64(NanoCount(datetime))
        THEN /\ output = to_string(NanoCount(datetime))
             /\ pc \in {"write", "done"}
             /\ ErrorKind(result) = "none"
        ELSE /\ ErrorKind(result) = "OutOfRange"
             /\ output = <<>>
             /\ pc = "done"

\* one nanosecond past the last count that fits, reached by add_nanoseconds
C17_Witness ==
    /\ pc = "done"
    /\ has(h, "from_timestamp")
    /\ h["from_timestamp"] = <<"9", "2", "2", "3", "3", "7", "2", "0", "3", "6">>
    /\ has(h, "add_nanoseconds")
    /\ datetime.frac = 854775808
    /\ LastStep = "to_timestamp_nanos"
    /\ ErrorKind(result) = "OutOfRange"
    /\ out = <<>>

\* C12: the default (RFC 3339) output of every successful invocation, fed
\* back as from_rfc3339 or as the years_since base of another invocation, is
\* accepted by the RFC 3339 parser and denotes the same instant to the
\* nanosecond.
C12_Rfc3339RoundTrip ==
    (pc = "done" /\ result = ResultOk /\ LastStep = "to_rfc3339") =>
        /\ parse_from_rfc3339(output).some
        /\ from_rfc3339(output).ok
        /\ NanoCount(from_rfc3339(output).v) = NanoCount(datetime)

\* the first second of the year 10000 is written with a sign and five digits,
\* which the RFC 3339 parser does not read
C12_Witness ==
    /\ pc = "done"
    /\ result = ResultOk
    /\ DOMAIN h = {"from_timestamp"}
    /\ out = <<<<"+", "1", "0", "0", "0", "0", "-", "0", "1", "-", "0", "1", "T",
                 "0", "0", ":", "0", "0", ":", "0", "0", "+", "0", "0", ":", "0", "0">>>>
    /\ ~parse_from_rfc3339(output).some

\* the round trip holds for the years 0000 to 9999, which the parser reads
RoundTripFourDigitYears ==
    (pc = "done" /\ result = ResultOk /\ LastStep = "to_rfc3339"
        /\ naive_local(datetime).y \in 0..9999) =>
        /\ from_rfc3339(output).ok
        /\ NanoCount(from_rfc3339(output).v) = NanoCount(datetime)

\* the additions of a fixed-length unit and the subtraction of the same unit
FixedUnitPairs ==
    { <<"add_weeks", "sub_weeks">>, <<"add_days", "sub_days">>,
      <<"add_hours", "sub_hours">>, <<"add_minutes", "sub_minutes">>,
      <<"add_seconds", "sub_seconds">>, <<"add_milliseconds", "sub_milliseconds">>,
      <<"add_microseconds", "sub_microseconds">>, <<"add_nanoseconds", "sub_nanoseconds">> }

\* a second call that reads the output of this one as from_rfc3339 and takes
\* the same amount away again: its instant, when both of its steps succeed
SecondCall(p) ==
    LET Taken(i) ==
            IF ~i.ok THEN i
            ELSE Modifier(p[2], (p[2] :> h[p[1]]), i.v, now, localTz)
    IN  Taken(from_rfc3339(output))

\* C13: adding n units in one call and subtracting n units from its result in
\* a second call gives back the starting instant, with the same local fields,
\* for days and for every fixed-length unit, whenever both steps stay in
\* range.
C13_ArithmeticInverse ==
    \A p \in FixedUnitPairs :
        (/\ pc = "done"
         /\ result = ResultOk
         /\ LastStep = "to_rfc3339"
         /\ ModifierSteps \in {<<p[1]>>, <<"with_timezone", p[1]>>}
         /\ SecondCall(p).ok)
        => SecondCall(p).v = start

\* a second added to a leap second and taken away again ends one second
\* before the leap second
C13_Witness ==
    /\ pc = "done"
    /\ result = ResultOk
    /\ DOMAIN h = {"from_rfc3339", "add_seconds"}
    /\ h["add_seconds"] = <<"1">>
    /\ start.frac >= 1000000000
    /\ SecondCall(<<"add_seconds", "sub_seconds">>).ok
    /\ SecondCall(<<"add_seconds", "sub_seconds">>).v.secs = start.secs
    /\ SecondCall(<<"add_seconds", "sub_seconds">>).v.frac = 0

\* outside a leap second the subtraction undoes the addition
InverseOutsideLeapSecond ==
    \A p \in FixedUnitPairs :
        (/\ pc = "done"
         /\ result = ResultOk
         /\ LastStep = "to_rfc3339"
         /\ ModifierSteps \in {<<p[1]>>, <<"with_timezone", p[1]>>}
         /\ start.frac < 1000000000)
        => (SecondCall(p).ok /\ SecondCall(p).v = start)

\* the instant the field setters of this call find: the start in the display
\* offset of with_timezone
BeforeSetters == Modifier("with_timezone", h, start, now, localTz).v

\* with_month0 applied alone to the instant the setters find
Month0Alone == Modifier("with_month0", h, BeforeSetters, now, localTz)

\* a call with with_month and with_month0="0", and no modifier but these and
\* with_timezone, has returned
Month0Case ==
    /\ pc = "done"
    /\ has(h, "with_month")
    /\ has(h, "with_month0")
    /\ h["with_month0"] = <<"0">>
    /\ start # None
    /\ Range(Present(ModifierSequence, h)) \subseteq {"with_timezone", "with_month", "with_month0"}

\* C14 as stated: with_month0="0" sets the month to January whatever the
\* with_month given in the same call is: the call succeeds with month 1 and
\* all other fields as with with_month0="0" alone.
C14_Month0Regardless ==
    Month0Case =>
        /\ result = ResultOk
        /\ naive_local(datetime).m = 1
        /\ Okay(datetime) = Month0Alone

\* C14 amended: with_month0="0" sets the month to January whatever the
\* with_month given in the same call is, provided with_month is itself
\* accepted (an integer from 1 to 12 whose month has the day of the instant):
\* the call then succeeds with month 1 and all other fields as with
\* with_month0="0" alone.  A with_month that is not accepted fails the call
\* with its own error, and with_month0 is not looked at.
C14_Month0AfterAcceptedMonth ==
    Month0Case =>
        LET m == Modifier("with_month", h, BeforeSetters, now, localTz)
        IN  IF m.ok
            THEN /\ result = ResultOk
                 /\ naive_local(datetime).m = 1
                 /\ Okay(datetime) = Month0Alone
            ELSE /\ result = m.err
                 /\ LastStep = "with_month"
                 /\ ErrorKind(result) \in {"InvalidInteger", "FieldOutOfRange"}

\* with_month="6" and with_month0="0" on an instant in August: January
C14_Witness ==
    /\ Month0Case
    /\ h["with_month"] = <<"6">>
    /\ naive_local(start).m = 8
    /\ result = ResultOk
    /\ naive_local(datetime).m = 1
    /\ naive_local(datetime).d = naive_local(BeforeSetters).d

\* the integer type the documentation gives each numeric parameter
SignedWide(key) ==
    key \in NumericInitializers
        \cup {"add_weeks", "add_hours", "add_minutes", "add_seconds", "add_milliseconds",
              "add_microseconds", "add_nanoseconds", "sub_weeks", "sub_hours",
              "sub_minutes", "sub_seconds", "sub_milliseconds", "sub_microseconds",
              "sub_nanoseconds"}

\* the texts of IntegerTexts that are no integer of the parameter's width and
\* signedness: no integer at all; negative for an unsigned parameter; 2^32
\* for a 32-bit parameter; 2^31 for with_year
NotAnInteger(text, key) ==
    \/ text \in { <<>>, <<"a", "b", "c">>, <<"1", ".", "5">>, <<" ", "1">>, <<"-">>,
                  <<"0", "x", "1", "0">>,
                  <<"9", "9", "9", "9", "9", "9", "9", "9", "9", "9", "9", "9", "9", "9", "9",
                    "9", "9", "9", "9", "9", "9", "9", "9">> }
    \/ text = <<"-", "1">> /\ ~SignedWide(key) /\ key # "with_year"
    \/ /\ text = <<"4", "2", "9", "4", "9", "6", "7", "2", "9", "6">>
       /\ ~SignedWide(key)
       /\ key \notin {"add_days", "sub_days"}
    \/ text = <<"2", "1", "4", "7", "4", "8", "3", "6", "4", "8">> /\ key = "with_year"

\* the numeric parameter of a call of one
NumericKey == CHOOSE k \in NumericInitializers \cup NumericModifiers : has(h, k)

\* the error of a call that gives the parameter key the text text
ErrorOf(key, text) ==
    IF key \in NumericInitializers THEN InitializerBranch(key, (key :> text), now)
    ELSE Modifier(key, (key :> text), start, now, localTz)

IntegerCase ==
    /\ pc = "done"
    /\ \E k \in NumericInitializers \cup NumericModifiers : has(h, k)
    /\ NotAnInteger(h[NumericKey], NumericKey)

\* C15: a numeric parameter whose text is no integer of its width and
\* signedness fails the call with InvalidInteger, and no other numeric
\* parameter given the same text fails with the same error text.
C15_InvalidIntegerNamesParameter ==
    IntegerCase =>
        /\ ErrorKind(result) = "InvalidInteger"
        /\ LastStep = NumericKey
        /\ \A k2 \in (NumericInitializers \cup NumericModifiers) \ {NumericKey} :
               (start # None \/ k2 \in NumericInitializers) =>
                   LET other == ErrorOf(k2, h[NumericKey])
                   IN  other.ok \/ other.err # result

\* with_ordinal="abc" fails with the very error of with_ordinal0="abc"
C15_Witness ==
    /\ pc = "done"
    /\ has(h, "with_ordinal")
    /\ h["with_ordinal"] = <<"a", "b", "c">>
    /\ result.tag = "Err"
    /\ result.desc = "Invalid ordinal parameter"
    /\ result = ErrorOf("with_ordinal0", h["with_ordinal"]).err

\* every text that is no integer of the parameter's type is refused as an
\* invalid integer by the parameter itself, and every other text is parsed
InvalidIntegerExactly ==
    (pc = "done" /\ \E k \in NumericInitializers \cup NumericModifiers : has(h, k)) =>
        (NotAnInteger(h[NumericKey], NumericKey)
            <=> (ErrorKind(result) = "InvalidInteger" /\ LastStep = NumericKey))

\* every parameter call() knows
KnownOptions ==
    Range(InitializerPriority) \cup Range(ModifierSequence) \cup Range(FinalizerPriority)
        \cup {"input_format", "locale"}

RECURSIVE ApplyAll(_, _, _, _, _)
\* the modifiers of order applied to r in turn, under a given clock and zone
ApplyAll(order, r, hash, clock, zone) ==
    IF order = <<>> \/ ~r.ok THEN r
    ELSE ApplyAll(Tail(order), Modifier(order[1], hash, r.v, clock, zone), hash, clock, zone)

\* what a call with the parameters hash returns and writes when Utc::now() is
\* clock and the local zone is zone
Outcome(hash, clock, zone) ==
    LET ikey == FirstPresent(InitializerPriority, hash, "now")
        fkey == FirstPresent(FinalizerPriority, hash, "to_rfc3339")
        Finish(f) ==
            IF f.ok THEN [result |-> ResultOk, out |-> <<f.v>>]
            ELSE [result |-> f.err, out |-> <<>>]
        Modified(r) ==
            IF ~r.ok THEN [result |-> r.err, out |-> <<>>]
            ELSE Finish(FinalizerBranch(fkey, hash, r.v))
    IN  Modified(ApplyAll(ModifierSequence, InitializerBranch(ikey, hash, clock), hash, clock, zone))

\* an initializer is present and with_timezone is not local
EnvironmentFree(hash) ==
    /\ \E i \in 1..Len(InitializerPriority) : has(hash, InitializerPriority[i])
    /\ has(hash, "with_timezone") => to_lowercase(hash["with_timezone"]) # LocalText

\* C18: a call that has an initializer and no with_timezone=local returns and
\* writes the same under every clock and every local zone; a parameter whose name
\* differs from a known option in letter case changes nothing, the call being
\* that of the mapping without it; the mapping is a function from names to
\* texts, which has no order of writing.
C18_Deterministic ==
    pc = "done" =>
        /\ EnvironmentFree(h) =>
               \A clock \in Clocks, zone \in LocalZones :
                   Outcome(h, clock, zone) = [result |-> result, out |-> out]
        /\ Outcome(Without(h, DOMAIN h \ KnownOptions), now, localTz)
               = [result |-> result, out |-> out]

\* from_timestamp with TO_TIMESTAMP, called in summer in Tokyo: the default
\* RFC 3339 text is written
C18_Witness ==
    /\ pc = "done"
    /\ DOMAIN h = {"from_timestamp", "TO_TIMESTAMP"}
    /\ now = NowSummer
    /\ localTz = TzTokyo
    /\ result = ResultOk
    /\ out = <<<<"1", "9", "8", "9", "-", "0", "8", "-", "0", "9", "T", "0", "9", ":", "3", "0", ":", "1", "1", "+", "0", "0", ":", "0", "0">>>>

\* C19: a call with no parameters never fails: no modifier is evaluated, the
\* instant is the reading of the UTC clock, and the text written is its RFC 3339
\* form with the offset +00:00.
C19_NoParameters ==
    DOMAIN h = {} =>
        /\ result \in {Running, ResultOk}
        /\ ModifierSteps = <<>>
        /\ pc # "initializers" => datetime = now
        /\ pc = "done" =>
               /\ result = ResultOk
               /\ out = <<output>>
               /\ Len(output) >= 25
               /\ SubSeq(output, Len(output) - 5, Len(output)) = <<"+", "0", "0", ":", "0", "0">>
               /\ parse_from_rfc3339(output) = Some(now)

\* the call without parameters made at 2024-07-01T08:15:30.123456789Z
C19_Witness ==
    /\ pc = "done"
    /\ DOMAIN h = {}
    /\ now = NowSummer
    /\ result = ResultOk
    /\ out = <<<<"2", "0", "2", "4", "-", "0", "7", "-", "0", "1", "T", "0", "8", ":", "1", "5", ":", "3", "0", ".", "1", "2", "3", "4", "5", "6", "7", "8", "9", "+", "0", "0", ":", "0", "0">>>>

\* with_timezone=local is the only modifier and has been evaluated
LocalCase ==
    /\ ModifiersDone
    /\ has(h, "with_timezone")
    /\ h["with_timezone"] = LocalText
    /\ ModifierSteps = <<"with_timezone">>

\* C20: with_timezone=local shows the instant with the UTC offset the local
\* zone has at that instant, whatever the daylight-saving period of the moment
\* of the call, and the default output is the RFC 3339 text of the instant at
\* that offset.
C20_LocalOffsetAtInstant ==
    LocalCase =>
        /\ datetime.off = TzOffsetAt(localTz, start)
        /\ (pc = "done" /\ LastStep = "to_rfc3339") =>
               /\ result = ResultOk
               /\ out = <<to_rfc3339(with_timezone(start, TzOffsetAt(localTz, start)))>>

\* a summer instant shown in America/Edmonton by a call made in January: the
\* text carries the winter offset -07:00, the zone had -06:00 at the instant
C20_Witness ==
    /\ LocalCase
    /\ pc = "done"
    /\ localTz = TzEdmonton
    /\ has(h, "from_rfc3339")
    /\ h["from_rfc3339"] = <<"1", "9", "8", "9", "-", "0", "8", "-", "0", "9", "T", "0", "9", ":", "3", "0", ":", "1", "1", "+", "0", "2", ":", "0", "0">>
    /\ TzOffsetAt(localTz, start) = -6 * 3600
    /\ TzOffsetAt(localTz, now) = -7 * 3600
    /\ result = ResultOk
    /\ out = <<<<"1", "9", "8", "9", "-", "0", "8", "-", "0", "9", "T", "0", "0", ":", "3", "0", ":", "1", "1", "-", "0", "7", ":", "0", "0">>>>

\* in a zone without daylight saving, local is the offset of the zone
LocalOffsetWithoutDst ==
    (LocalCase /\ localTz = TzTokyo) => datetime.off = TzOffsetAt(localTz, start)

\* the day number and the second of the day an instant shows at its offset
LocalDay(dt) == dt.days + (dt.secs + dt.off) \div 86400

LocalSecs(dt) == (dt.secs + dt.off) % 86400

LocalDate(dt) == CivilFromDays(LocalDay(dt))

\* the instant after with_timezone: the starting instant shown at the offset
\* O the parameter set
AtOffset == [start EXCEPT !.off = datetime.off]

\* the number a field setter was given
SetterValue(key) == BigSmall(parse(h[key], ParamType(key)).val)

\* what a field setter given v makes of the local date and time of b, as the
\* local date and time of a
LocalFieldSet(key, v, b, a) ==
    LET bd == LocalDate(b)
        ad == LocalDate(a)
        sameDate == LocalDay(a) = LocalDay(b)
        sameTime == LocalSecs(a) = LocalSecs(b) /\ a.frac = b.frac
    IN  CASE key = "with_hour" ->
                /\ sameDate /\ a.frac = b.frac
                /\ LocalSecs(a) \div 3600 = v
                /\ LocalSecs(a) % 3600 = LocalSecs(b) % 3600
          [] key = "with_minute" ->
                /\ sameDate /\ a.frac = b.frac
                /\ (LocalSecs(a) % 3600) \div 60 = v
                /\ LocalSecs(a) \div 3600 = LocalSecs(b) \div 3600
                /\ LocalSecs(a) % 60 = LocalSecs(b) % 60
          [] key = "with_second" ->
                /\ sameDate /\ a.frac = b.frac
                /\ LocalSecs(a) % 60 = v
                /\ LocalSecs(a) \div 60 = LocalSecs(b) \div 60
          [] key = "with_nanosecond" ->
                sameDate /\ LocalSecs(a) = LocalSecs(b) /\ a.frac = v
          [] key = "with_day" -> sameTime /\ ad = [bd EXCEPT !.d = v]
          [] key = "with_day0" -> sameTime /\ ad = [bd EXCEPT !.d = v + 1]
          [] key = "with_month" -> sameTime /\ ad = [bd EXCEPT !.m = v]
          [] key = "with_month0" -> sameTime /\ ad = [bd EXCEPT !.m = v + 1]
          [] key = "with_year" -> sameTime /\ ad = [bd EXCEPT !.y = v]
          [] key = "with_ordinal" ->
                sameTime /\ LocalDay(a) = DaysFromCivil(bd.y, 1, 1) + v - 1
          [] key = "with_ordinal0" ->
                sameTime /\ LocalDay(a) = DaysFromCivil(bd.y, 1, 1) + v

\* the day or ordinal exists in the month or year of the local date of b
LocalDayExists(key, v, b) ==
    CASE key = "with_day" -> v \in 1..DaysInMonth(LocalDate(b).y, LocalDate(b).m)
      [] key = "with_day0" -> v \in 0..(DaysInMonth(LocalDate(b).y, LocalDate(b).m) - 1)
      [] key = "with_ordinal" -> v \in 1..DaysInYear(LocalDate(b).y)
      [] key = "with_ordinal0" -> v \in 0..(DaysInYear(LocalDate(b).y) - 1)

\* C21: after with_timezone has set the display offset O, a field setter acts
\* on the local date and time at O: the field it names takes the value given in
\* the local representation and the others stay, so that the UTC instant is that
\* local date-time minus O; with_day and with_ordinal are accepted exactly when
\* the local date at O has such a day; the output keeps the offset O.
C21_SettersActLocally ==
    \A i \in 2..12 :
        LET key == ModifierSequence[i]
        IN  (/\ ModifierSteps = <<"with_timezone", key>>
             /\ parse(h[key], ParamType(key)).ok)
            => /\ ModifiersDone =>
                      /\ datetime.off = Modifier("with_timezone", h, start, now, localTz).v.off
                      /\ LocalFieldSet(key, SetterValue(key), AtOffset, datetime)
               /\ key \in {"with_day", "with_day0", "with_ordinal", "with_ordinal0"} =>
                      /\ (pc = "done" /\ LastStep = key) <=>
                             ~LocalDayExists(key, SetterValue(key),
                                             Modifier("with_timezone", h, start, now, localTz).v)
                      /\ (pc = "done" /\ LastStep = key) =>
                             ErrorKind(result) = "FieldOutOfRange"
               /\ (pc = "done" /\ result = ResultOk) =>
                      /\ out = <<output>>
                      /\ SubSeq(output, Len(output) - 5, Len(output)) = h["with_timezone"]

\* 2020-01-01T00:30:00Z shown at -01:00 is 2019-12-31T23:30: with_hour=0 gives
\* 00:30 of the 31st at -01:00, which is 01:30Z of the 31st
C21_Witness ==
    /\ pc = "done"
    /\ result = ResultOk
    /\ ModifierSteps = <<"with_timezone", "with_hour">>
    /\ h["with_hour"] = <<"0">>
    /\ start.days = DaysFromCivil(2020, 1, 1)
    /\ start.secs = 1800
    /\ datetime.off = -3600
    /\ datetime.days = DaysFromCivil(2019, 12, 31)
    /\ datetime.secs = 3600 + 1800

\* with_ordinal=366 is refused for 2020-01-01T00:30:00Z shown at -01:00, the
\* local year being 2019
LocalOrdinalRefused ==
    /\ pc = "done"
    /\ ModifierSteps = <<"with_timezone", "with_ordinal">>
    /\ h["with_ordinal"] = <<"3", "6", "6">>
    /\ start.days = DaysFromCivil(2020, 1, 1)
    /\ ErrorKind(result) = "FieldOutOfRange"

\* the sum and the difference (a >= b) of two magnitudes, digit by digit
RECURSIVE MagAddAcc(_, _, _, _)
MagAddAcc(a, b, carry, acc) ==
    IF a = <<>> /\ b = <<>> THEN (IF carry = 0 THEN acc ELSE <<carry>> \o acc)
    ELSE LET x == (IF a = <<>> THEN 0 ELSE a[Len(a)])
                      + (IF b = <<>> THEN 0 ELSE b[Len(b)]) + carry
         IN  MagAddAcc(IF a = <<>> THEN a ELSE SubSeq(a, 1, Len(a) - 1),
                       IF b = <<>> THEN b ELSE SubSeq(b, 1, Len(b) - 1),
                       x \div 10, <<x % 10>> \o acc)

RECURSIVE MagSubAcc(_, _, _, _)
MagSubAcc(a, b, borrow, acc) ==
    IF a = <<>> THEN acc
    ELSE LET x == a[Len(a)] - (IF b = <<>> THEN 0 ELSE b[Len(b)]) - borrow
         IN  MagSubAcc(SubSeq(a, 1, Len(a) - 1),
                       IF b = <<>> THEN b ELSE SubSeq(b, 1, Len(b) - 1),
                       IF x < 0 THEN 1 ELSE 0, <<(x + 10) % 10>> \o acc)

\* the sum of two wide integers
WideSum(a, b) ==
    IF a.neg = b.neg THEN Big(a.neg, MagAddAcc(a.mag, b.mag, 0, <<>>))
    ELSE IF MagCmp(a.mag, b.mag) >= 0 THEN Big(a.neg, MagSubAcc(a.mag, b.mag, 0, <<>>))
    ELSE Big(b.neg, MagSubAcc(b.mag, a.mag, 0, <<>>))

\* the call has one delta, the only modifier
DeltaKeys == Range(AddKeys) \cup Range(SubKeys)

DeltaKey == CHOOSE k \in DeltaKeys : has(h, k)

DeltaCase ==
    /\ pc = "done"
    /\ start # None
    /\ \E k \in DeltaKeys : Range(Present(ModifierSequence, h)) = {k}

\* the units of fixed length and the units whose count becomes a duration
\* through a checked conversion
FixedUnits ==
    {"weeks", "hours", "minutes", "seconds", "milliseconds", "microseconds", "nanoseconds"}

ConvertedUnits == {"weeks", "hours", "minutes", "seconds", "milliseconds"}

\* the nanoseconds in count units, as a magnitude
UnitNanos(mag, unit) ==
    LET Thousands(m, times) ==
            CASE times = 0 -> m
              [] times = 1 -> MagMulAdd(m, 1000, 0)
              [] times = 2 -> MagMulAdd(MagMulAdd(m, 1000, 0), 1000, 0)
              [] times = 3 -> MagMulAdd(MagMulAdd(MagMulAdd(m, 1000, 0), 1000, 0), 1000, 0)
    IN  CASE unit = "weeks" -> Thousands(MagMulAdd(mag, 604800, 0), 3)
          [] unit = "hours" -> Thousands(MagMulAdd(mag, 3600, 0), 3)
          [] unit = "minutes" -> Thousands(MagMulAdd(mag, 60, 0), 3)
          [] unit = "seconds" -> Thousands(mag, 3)
          [] unit = "milliseconds" -> Thousands(mag, 2)
          [] unit = "microseconds" -> Thousands(mag, 1)
          [] unit = "nanoseconds" -> mag

\* the nanoseconds from the epoch to the instant count units after (add_*) or
\* before (sub_*) the starting instant
ExactSum(key, count) ==
    WideSum(NanoCount(start),
            Big(IF InSeq(key, AddKeys) THEN count.neg ELSE ~count.neg,
                UnitNanos(count.mag, UnitOf(key))))

\* the nanoseconds of -262143-01-01T00:00:00Z and +262142-12-31T23:59:59.999999999Z
MinNanos == Big(TRUE, <<8, 3, 3, 4, 6, 0, 1, 2, 2, 8, 8, 0, 0, 0, 0, 0, 0, 0, 0, 0, 0, 0>>)

MaxNanos == Big(FALSE, <<8, 2, 1, 0, 2, 6, 6, 8, 7, 6, 7, 9, 9, 9, 9, 9, 9, 9, 9, 9, 9, 9>>)

Representable(n) == BigCmp(n, MinNanos) >= 0 /\ BigCmp(n, MaxNanos) <= 0

\* the messages that report the unit of key out of range
UnitOutOfRange(key) ==
    {RangeDesc(key)}
        \cup (IF UnitOf(key) \in ConvertedUnits THEN {DeltaRangeDesc(key)} ELSE {})

\* C22: a delta is checked arithmetic: a count of a fixed-length unit gives
\* exactly the instant that many units away when that instant is representable,
\* and fails with the out-of-range error of its unit when it is not, whether the
\* conversion to a duration or the addition overflows; add_days, sub_days,
\* add_months and sub_months fail the same way; no delta gives any other
\* instant or ends the call without a result, the extreme 64-bit counts of
\* microseconds and nanoseconds included.
C22_CheckedDeltas ==
    (DeltaCase /\ parse(h[DeltaKey], ParamType(DeltaKey)).ok) =>
        LET key == DeltaKey
            count == parse(h[key], ParamType(key)).val
            failed ==
                /\ result.tag = "Err"
                /\ LastStep = key
                /\ result.desc \in UnitOutOfRange(key)
                /\ ErrorKind(result) \in {"OutOfRange", "FieldOutOfRange"}
                /\ out = <<>>
        IN  /\ result = ResultOk \/ failed
            /\ UnitOf(key) \in FixedUnits =>
                   IF Representable(ExactSum(key, count))
                   THEN /\ result = ResultOk
                        /\ NanoCount(datetime) = ExactSum(key, count)
                        /\ datetime.frac < 1000000000
                   ELSE failed
            /\ UnitOf(key) = "days" =>
                   LET day == start.days
                                  + (IF InSeq(key, AddKeys) THEN 1 ELSE -1) * BigSmall(count)
                   IN  IF MinDays <= day /\ day <= MaxDays
                       THEN result = ResultOk /\ datetime = [start EXCEPT !.days = day]
                       ELSE failed
            /\ result = ResultOk => (MinDays <= datetime.days /\ datetime.days <= MaxDays)

\* add_microseconds with the greatest 64-bit count, from the first instant
\* DateTime holds: 9223372036854.775807 seconds later
C22_Witness ==
    /\ DeltaCase
    /\ result = ResultOk
    /\ has(h, "add_microseconds")
    /\ h["add_microseconds"] = <<"9", "2", "2", "3", "3", "7", "2", "0", "3", "6", "8", "5", "4", "7", "7", "5", "8", "0", "7">>
    /\ start.days = MinDays
    /\ datetime.days = 10286699
    /\ datetime.secs = 14454
    /\ datetime.frac = 775807000

\* add_hours with the count after the largest that becomes a TimeDelta fails in
\* the conversion
ConversionRefused ==
    /\ DeltaCase
    /\ has(h, "add_hours")
    /\ result.tag = "Err"
    /\ result.desc = "Hours parameter out of range"

\* sub_X for add_X and add_X for sub_X
MirrorKey(key) ==
    LET At(keys) == CHOOSE i \in 1..Len(keys) : keys[i] = key
    IN  IF InSeq(key, AddKeys) THEN SubKeys[At(AddKeys)] ELSE AddKeys[At(SubKeys)]

\* the text of the opposite count
NegText(text) == IF text[1] = "-" THEN Tail(text) ELSE <<"-">> \o text

\* a minus sign and digits
NegativeCount(text) == Len(text) > 1 /\ text[1] = "-" /\ AllDigits(Tail(text))

\* the call with the mirrored parameter and the opposite count in place of the
\* delta
MirrorCall(key, text) ==
    Modifier(MirrorKey(key), (MirrorKey(key) :> NegText(text)), start, now, localTz)

\* C23: add_months, sub_months, add_days and sub_days take unsigned counts, a
\* negative one failing with InvalidInteger; the deltas of weeks, hours,
\* minutes, seconds, milliseconds, microseconds and nanoseconds take signed
\* counts, and add_X=-n gives the instant of sub_X=n, sub_X=-n that of add_X=n,
\* one being in range exactly when the other is.
C23_DeltaSigns ==
    DeltaCase =>
        LET key == DeltaKey
            text == h[DeltaKey]
        IN  /\ (UnitOf(key) \in {"months", "days"} /\ NegativeCount(text)) =>
                   (ErrorKind(result) = "InvalidInteger" /\ LastStep = key)
            /\ (UnitOf(key) \in FixedUnits /\ NegativeCount(text)
                    /\ MagCmp(parse(Tail(text), "u64").val.mag, I64MinMag) <= 0) =>
                   ErrorKind(result) # "InvalidInteger"
            /\ (UnitOf(key) \in FixedUnits
                    /\ parse(text, "i64").ok /\ parse(NegText(text), "i64").ok) =>
                   /\ (result = ResultOk) <=> MirrorCall(key, text).ok
                   /\ result = ResultOk => datetime = MirrorCall(key, text).v

\* add_hours=-1 shows 08:30:11, as sub_hours=1 does
C23_Witness ==
    /\ DeltaCase
    /\ result = ResultOk
    /\ has(h, "add_hours")
    /\ h["add_hours"] = <<"-", "1">>
    /\ start.secs = 9 * 3600 + 30 * 60 + 11
    /\ datetime.secs = 8 * 3600 + 30 * 60 + 11
    /\ datetime = Modifier("sub_hours", ("sub_hours" :> <<"1">>), start, now, localTz).v

\* add_days=-1 is refused
NegativeDaysRefused ==
    /\ DeltaCase
    /\ has(h, "add_days")
    /\ h["add_days"] = <<"-", "1">>
    /\ result.tag = "Err"
    /\ result.desc = "Invalid days parameter"
    /\ result.cause = "invalid digit found in string"

\* the call has add_months or sub_months as its only modifier after
\* with_timezone, and the count is a u32
MonthDeltaCase ==
    /\ pc = "done"
    /\ start # None
    /\ \E k \in {"add_months", "sub_months"} :
           /\ Range(Present(ModifierSequence, h)) \ {"with_timezone"} = {k}
           /\ parse(h[k], "u32").ok

\* the months the call moves the instant by, negative for sub_months
MonthsMoved ==
    IF has(h, "add_months") THEN BigSmall(parse(h["add_months"], "u32").val)
    ELSE -BigSmall(parse(h["sub_months"], "u32").val)

\* the year and the month that many months from a local date
TargetMonth(date, months) ==
    [y |-> (date.y * 12 + date.m - 1 + months) \div 12,
     m |-> ((date.y * 12 + date.m - 1 + months) % 12) + 1]

\* C24: add_months and sub_months keep the day of the month and the time of day
\* when the target month has that day; when it has not, the result is the last
\* day of the target month at the same time of day, never a day of the month
\* after and never a failure; the call fails only when the target year is
\* outside the range of years.
C24_MonthOverflowClamps ==
    MonthDeltaCase =>
        LET b == Modifier("with_timezone", h, start, now, localTz).v
            t == TargetMonth(LocalDate(b), MonthsMoved)
            last == DaysInMonth(t.y, t.m)
        IN  IF -262143 <= t.y /\ t.y <= 262142
            THEN /\ result = ResultOk
                 /\ LocalDate(datetime).y = t.y
                 /\ LocalDate(datetime).m = t.m
                 /\ LocalDate(datetime).d
                        = (IF LocalDate(b).d <= last THEN LocalDate(b).d ELSE last)
                 /\ LocalSecs(datetime) = LocalSecs(b)
                 /\ datetime.frac = b.frac
                 /\ datetime.off = b.off
            ELSE result # ResultOk =>
                     /\ result.tag = "Err"
                     /\ result.desc = "Months parameter out of range or produces invalid date"
                     /\ LastStep \in {"add_months", "sub_months"}

\* 2020-01-31T12:00:00Z plus one month is 2020-02-29T12:00:00Z
C24_Witness ==
    /\ MonthDeltaCase
    /\ result = ResultOk
    /\ has(h, "add_months")
    /\ h["add_months"] = <<"1">>
    /\ start.days = DaysFromCivil(2020, 1, 31)
    /\ datetime.days = DaysFromCivil(2020, 2, 29)
    /\ datetime.secs = 12 * 3600
    /\ out = <<<<"2", "0", "2", "0", "-", "0", "2", "-", "2", "9", "T", "1", "2", ":", "0", "0", ":", "0", "0", "+", "0", "0", ":", "0", "0">>>>

\* one month after the last instant DateTime holds there is no year
MonthsOutOfRange ==
    /\ MonthDeltaCase
    /\ has(h, "add_months")
    /\ h["add_months"] = <<"1">>
    /\ start.days = MaxDays
    /\ result.tag = "Err"
    /\ result.desc = "Months parameter out of range or produces invalid date"

\* the integer a text of an optional sign and digits writes
CountWritten(text) ==
    LET body == IF text[1] \in {"+", "-"} THEN Tail(text) ELSE text
    IN  Big(text[1] = "-", [i \in 1..Len(body) |-> DigitVal(body[i])])

\* the text is a 64-bit signed integer
IsI64Text(text) ==
    /\ text # <<>>
    /\ LET body == IF text[1] \in {"+", "-"} THEN Tail(text) ELSE text
       IN  body # <<>> /\ AllDigits(body)
    /\ FitsI64(CountWritten(text))

\* from_timestamp_nanos is the initializer of the call and has been evaluated
NanosInitializerCase ==
    /\ pc # "initializers"
    /\ has(h, "from_timestamp_nanos")
    /\ steps[1] = "from_timestamp_nanos"

\* C25: from_timestamp_nanos given the text of a 64-bit signed integer N
\* succeeds and is the instant exactly N nanoseconds from the epoch, which
\* to_timestamp_nanos writes back as N; given any other text, a number beyond
\* 64 bits included, it fails with InvalidInteger.
C25_TimestampNanosInitializer ==
    NanosInitializerCase =>
        IF IsI64Text(h["from_timestamp_nanos"])
        THEN /\ start # None
             /\ start.frac < 1000000000
             /\ start.off = 0
             /\ NanoCount(start) = CountWritten(h["from_timestamp_nanos"])
             /\ (pc = "done" /\ DOMAIN h = {"from_timestamp_nanos", "to_timestamp_nanos"}) =>
                    /\ result = ResultOk
                    /\ out = <<to_string(CountWritten(h["from_timestamp_nanos"]))>>
        ELSE /\ pc = "done"
             /\ ErrorKind(result) = "InvalidInteger"
             /\ result.desc = "Invalid nano-seconds timestamp"
             /\ steps = <<"from_timestamp_nanos">>
             /\ out = <<>>

\* the least 64-bit integer is 1677-09-21T00:12:43.145224192Z, and comes back
C25_Witness ==
    /\ pc = "done"
    /\ DOMAIN h = {"from_timestamp_nanos", "to_timestamp_nanos"}
    /\ h["from_timestamp_nanos"] = <<"-", "9", "2", "2", "3", "3", "7", "2", "0", "3", "6", "8", "5", "4", "7", "7", "5", "8", "0", "8">>
    /\ start.days = DaysFromCivil(1677, 9, 21)
    /\ start.secs = 12 * 60 + 43
    /\ start.frac = 145224192
    /\ out = <<h["from_timestamp_nanos"]>>

\* 12345678901234567890 is refused
NanosBeyondI64Refused ==
    /\ pc = "done"
    /\ has(h, "from_timestamp_nanos")
    /\ h["from_timestamp_nanos"] = <<"1", "2", "3", "4", "5", "6", "7", "8", "9", "0", "1", "2", "3", "4", "5", "6", "7", "8", "9", "0">>
    /\ result.tag = "Err"
    /\ result.cause = "number too large to fit in target type"

\* with_nanosecond is the only field setter and delta of the call, has been
\* evaluated, and its text is a u32
NanosecondCase ==
    /\ has(h, "with_nanosecond")
    /\ InSeq("with_nanosecond", steps)
    /\ Range(Present(ModifierSequence, h)) \subseteq {"with_timezone", "with_nanosecond"}
    /\ parse(h["with_nanosecond"], "u32").ok

\* C26: with_nanosecond accepts exactly the values 0 to 999,999,999 and fails
\* with FieldOutOfRange above, so that no call it is part of ends well with an
\* instant whose nanosecond field is 1,000,000,000 or more.
C26_NanosecondRange ==
    NanosecondCase =>
        /\ (LastStep = "with_nanosecond" /\ pc = "done")
               <=> BigSmall(parse(h["with_nanosecond"], "u32").val) > 999999999
        /\ (LastStep = "with_nanosecond" /\ pc = "done") =>
               ErrorKind(result) = "FieldOutOfRange"
        /\ (pc = "done" /\ result = ResultOk) => datetime.frac < 1000000000

\* with_nanosecond=1500000000 on 1989-08-09T09:30:11Z is accepted: the instant
\* holds a leap-second encoding and the text shows second 12
C26_Witness ==
    /\ NanosecondCase
    /\ pc = "done"
    /\ result = ResultOk
    /\ DOMAIN h = {"from_timestamp", "with_nanosecond"}
    /\ h["with_nanosecond"] = <<"1", "5", "0", "0", "0", "0", "0", "0", "0", "0">>
    /\ start.secs = 9 * 3600 + 30 * 60 + 11
    /\ datetime.frac = 1500000000

\* with_nanosecond of 2,000,000,000 and more is refused, and every value up to
\* 999,999,999 is taken as the nanosecond of the second
NanosecondOutsideLeapRange ==
    NanosecondCase =>
        LET v == BigSmall(parse(h["with_nanosecond"], "u32").val)
        IN  /\ v >= 2000000000 =>
                   (pc = "done" /\ LastStep = "with_nanosecond"
                        /\ ErrorKind(result) = "FieldOutOfRange")
            /\ (v <= 999999999 /\ pc = "done") =>
                   (result = ResultOk /\ datetime.frac = v)

\* with_timezone names a zone and has been evaluated
NamedZoneCase ==
    /\ has(h, "with_timezone")
    /\ h["with_timezone"] \in {TzEdmonton, TzTokyo}
    /\ InSeq("with_timezone", steps)

\* the offset text of RFC 3339 for an offset of whole hours west of UTC or east
ZoneOffsetText(off) ==
    CASE off = -7 * 3600 -> <<"-", "0", "7", ":", "0", "0">>
      [] off = -6 * 3600 -> <<"-", "0", "6", ":", "0", "0">>
      [] off = 9 * 3600 -> <<"+", "0", "9", ":", "0", "0">>

\* C27: a named zone is resolved once, to the offset the zone has at the
\* initializer's instant; every modifier after it leaves that offset in place,
\* so the output carries the offset of the original instant even when the zone
\* has another offset at the resulting instant.
C27_ZoneResolvedOnce ==
    NamedZoneCase =>
        /\ datetime.off = TzOffsetAt(h["with_timezone"], start)
        /\ (pc = "done" /\ result = ResultOk /\ LastStep = "to_rfc3339") =>
               /\ out = <<output>>
               /\ SubSeq(output, Len(output) - 5, Len(output))
                      = ZoneOffsetText(TzOffsetAt(h["with_timezone"], start))

\* 1989-08-09T09:30:11Z in America/Edmonton plus six months: the text is
\* 1990-02-09T03:30:11-06:00 though the zone is at -07:00 in February
C27_Witness ==
    /\ NamedZoneCase
    /\ pc = "done"
    /\ result = ResultOk
    /\ h["with_timezone"] = TzEdmonton
    /\ ModifierSteps = <<"with_timezone", "add_months">>
    /\ TzOffsetAt(TzEdmonton, datetime) = -7 * 3600
    /\ datetime.off = -6 * 3600
    /\ out = <<<<"1", "9", "9", "0", "-", "0", "2", "-", "0", "9", "T", "0", "3", ":", "3", "0", ":", "1", "1", "-", "0", "6", ":", "0", "0">>>>

\* the date setters
DateSetters ==
    {"with_ordinal", "with_ordinal0", "with_year", "with_month", "with_month0",
     "with_day", "with_day0"}

\* a date setter with the text of an integer of its type is about to be
\* evaluated
SetterDue ==
    /\ pc \in DateSetters
    /\ has(h, pc)
    /\ parse(h[pc], ParamType(pc)).ok

\* C28: each date setter is judged against the running instant the setters
\* before it produced, not against the combination of all setters: it fails with
\* FieldOutOfRange exactly when its value does not exist in the date the running
\* instant shows at that moment, and otherwise sets its field of that date.
C28_SettersValidatedInTurn ==
    [][SetterDue =>
           IF LegalField(pc, SetterValue(pc), LocalDate(datetime))
           THEN /\ pc' # "done"
                /\ LocalFieldSet(pc, SetterValue(pc), datetime, datetime')
           ELSE /\ pc' = "done"
                /\ steps' = Append(steps, pc)
                /\ result'.tag = "Err"
                /\ result'.desc = RangeDesc(pc)
                /\ datetime' = datetime]_vars

\* 2019-01-31 with with_month=2 and with_day=1: February 1st exists, and the
\* call fails at with_month, with_day never evaluated
C28_Witness ==
    /\ pc = "done"
    /\ DOMAIN h = {"from_rfc3339", "with_month", "with_day"}
    /\ h["with_month"] = <<"2">>
    /\ h["with_day"] = <<"1">>
    /\ LocalDate(start) = [y |-> 2019, m |-> 1, d |-> 31]
    /\ ValidYmd(2019, 2, 1)
    /\ steps = <<"from_rfc3339", "with_month">>
    /\ ErrorKind(result) = "FieldOutOfRange"

\* the same setters succeed from 2020-01-15
SameSettersSucceed ==
    /\ pc = "done"
    /\ DOMAIN h = {"from_rfc3339", "with_month", "with_day"}
    /\ h["with_month"] = <<"2">>
    /\ h["with_day"] = <<"1">>
    /\ LocalDate(start) = [y |-> 2020, m |-> 1, d |-> 15]
    /\ result = ResultOk
    /\ LocalDate(datetime) = [y |-> 2020, m |-> 2, d |-> 1]

\* with_ordinal=366 fails in 2019 though with_year=2020 is part of the call
OrdinalBeforeYear ==
    /\ pc = "done"
    /\ has(h, "with_ordinal")
    /\ has(h, "with_year")
    /\ h["with_ordinal"] = <<"3", "6", "6">>
    /\ h["with_year"] = <<"2", "0", "2", "0">>
    /\ LocalDate(start).y = 2019
    /\ LastStep = "with_ordinal"
    /\ result.tag = "Err"
    /\ result.desc = "Ordinal parameter out of range"

\* the finalizers that are flags
FlagFinalizers ==
    {"to_rfc2822", "to_timestamp", "to_timestamp_millis", "to_timestamp_micros",
     "to_timestamp_nanos"}

\* values of a flag
FlagTexts == {<<"t", "r", "u", "e">>, <<"f", "a", "l", "s", "e">>, <<"0">>, <<>>}

\* the finalizer of highest priority the call holds
SelectedFinalizer == FirstPresent(FinalizerPriority, h, "to_rfc3339")

\* the call is over and the finalizer of highest priority it holds is a flag
FlagCase == pc = "done" /\ SelectedFinalizer \in FlagFinalizers

\* C29: a flag finalizer is selected by the presence of its key and its value is
\* not read: the call returns and writes what it returns and writes with any
\* other value of the flag, true included, and when it comes to the finalizers
\* the one evaluated is the flag; to_timestamp of an unmodified from_timestamp
\* writes that count of seconds whatever the value of the flag.
C29_FlagsByPresence ==
    FlagCase =>
        /\ \A v \in FlagTexts :
               Outcome([h EXCEPT ![SelectedFinalizer] = v], now, localTz)
                   = [result |-> result, out |-> out]
        /\ FinalizerRan => LastStep = SelectedFinalizer
        /\ (/\ SelectedFinalizer = "to_timestamp"
            /\ steps = <<"from_timestamp", "to_timestamp">>)
               => /\ result = ResultOk
                  /\ out = <<DecimalText(h["from_timestamp"])>>

\* to_timestamp=false writes the count of seconds
C29_Witness ==
    /\ FlagCase
    /\ DOMAIN h = {"from_timestamp", "to_timestamp"}
    /\ h["to_timestamp"] = <<"f", "a", "l", "s", "e">>
    /\ steps = <<"from_timestamp", "to_timestamp">>
    /\ result = ResultOk
    /\ out = <<<<"6", "1", "8", "6", "5", "8", "2", "1", "1">>>>

\* the locale tags of the calls that name a locale
KnownLocaleTags == {<<"e", "n", "_", "U", "S">>, <<"n", "l", "_", "N", "L">>}

\* the call holds a locale and is over
LocaleCase == pc = "done" /\ has(h, "locale")

\* C30: the locale is read only when output_format is the finalizer: a call
\* that comes to output_format with a locale that is no locale tag fails with
\* InvalidLocale and writes nothing, and one with a locale tag does not; a call
\* without output_format returns and writes what it does without the locale,
\* and never fails with InvalidLocale.
C30_LocaleOnlyWithFormat ==
    LocaleCase =>
        IF has(h, "output_format")
        THEN /\ LastStep = "output_format" =>
                    /\ ErrorKind(result) = "InvalidLocale" <=> h["locale"] \notin KnownLocaleTags
                    /\ ErrorKind(result) = "InvalidLocale" => out = <<>>
             /\ ErrorKind(result) = "InvalidLocale" => LastStep = "output_format"
        ELSE /\ Outcome(Without(h, {"locale"}), now, localTz) = [result |-> result, out |-> out]
             /\ ErrorKind(result) # "InvalidLocale"

\* locale=GAGA fails with output_format
C30_Witness ==
    /\ LocaleCase
    /\ h["locale"] = <<"G", "A", "G", "A">>
    /\ has(h, "output_format")
    /\ steps = <<"from_timestamp", "output_format">>
    /\ ErrorKind(result) = "InvalidLocale"
    /\ out = <<>>

\* locale=GAGA is ignored by to_timestamp
LocaleIgnored ==
    /\ LocaleCase
    /\ h["locale"] = <<"G", "A", "G", "A">>
    /\ DOMAIN h = {"from_timestamp", "locale", "to_timestamp"}
    /\ result = ResultOk
    /\ out = <<<<"6", "1", "8", "6", "5", "8", "2", "1", "1">>>>

\* locale=nl_NL names the month in Dutch
LocaleUsed ==
    /\ LocaleCase
    /\ h["locale"] = <<"n", "l", "_", "N", "L">>
    /\ DOMAIN h = {"from_timestamp", "locale", "output_format"}
    /\ result = ResultOk
    /\ out = <<<<"0", "9", " ", "a", "u", "g", "u", "s", "t", "u", "s", " ", "1", "9", "8", "9">>>>

====
